---------------------------- MODULE Spec2Model ----------------------------
(***************************************************************************)
(* Model of the SHAC player: the SHACDecoder (container parsing, sample    *)
(* reading, ambisonic rotation, spherical-harmonic basis) and the          *)
(* SpatialAudioEngine's spherical-harmonic routine.                         *)
(*                                                                         *)
(* Conventions.  A byte buffer is a sequence of numbers 0..255; the byte   *)
(* at JavaScript offset o is buf[o + 1].  A JavaScript exception is a      *)
(* result record with ok = FALSE and the error's kind in err.  Text is a   *)
(* sequence of one-character strings.                                      *)
(***************************************************************************)
EXTENDS Integers, Sequences, FiniteSets, TLC

(***************************************************************************)
(* Bounds of the model.                                                    *)
(***************************************************************************)
MaxSamples == 2     \* header.n_samples ranges over 0..MaxSamples
MaxLayers == 2      \* header.n_layers ranges over 0..MaxLayers
MaxRotCalls == 2    \* calls of rotateAmbisonics in a run
MaxSHCalls == 2     \* calls of the spherical-harmonic routines in a run
MaxSHOrder == 4     \* the spherical-harmonic routines are asked orders 0..MaxSHOrder
MaxLookups == 2     \* direct calls of getCachedRotationMatrix in a run
MaxPoolCalls == 4   \* calls on the buffer pool, and writes of its holders, in a run
MaxBufferLen == 2   \* the longest buffer asked of the pool
MaxRenders == 2     \* calls of createAudioBuffer in a run
MaxRenderLen == 1   \* the most samples in a channel rendered
MaxEngineLayers == 2 \* the most layers in a file loaded into the engine
MaxEngineCalls == 3 \* calls on the engine in a run
MaxClock == 1       \* the furthest the clock of the audio context runs
MaxListenerCalls == 3 \* calls that move, turn or reset the listener in a run
MaxRequests == 2    \* fetch events the service worker is sent in a run
MaxActivations == 2 \* activate events the service worker is sent in a run
MaxPlayerCalls == 3 \* presses of play/pause and replay and timer ticks in a run
MaxLoads == 2       \* loads of a file started in a run
QuarterTurn == 3142 \* steps of a rotation angle in pi/2: a step is about 0.0005 rad
Unit == 2000        \* a rotation-matrix entry e is held as the whole number Unit * e

(***************************************************************************)
(* Generic helpers.                                                        *)
(***************************************************************************)
Range(s) == {s[i] : i \in DOMAIN s}

Min(a, b) == IF a < b THEN a ELSE b

RECURSIVE Concat(_)
Concat(ss) == IF ss = <<>> THEN <<>> ELSE Head(ss) \o Concat(Tail(ss))

\* s[from+1 .. from+n], the n bytes at offset from
Slice(s, from, n) == [i \in 1..n |-> s[from + i]]

(***************************************************************************)
(* Text <-> bytes.  TextDecoder().decode maps each ASCII byte to its       *)
(* character; a byte that is no ASCII character of the table becomes the   *)
(* replacement character (written "?" here).                               *)
(***************************************************************************)
AsciiTable ==
  << <<" ", 32>>, <<"\"", 34>>, <<"'", 39>>, <<"(", 40>>, <<")", 41>>,
     <<",", 44>>, <<"-", 45>>, <<".", 46>>,
     <<"0", 48>>, <<"1", 49>>, <<"2", 50>>, <<"3", 51>>, <<"4", 52>>,
     <<"5", 53>>, <<"6", 54>>, <<"7", 55>>, <<"8", 56>>, <<"9", 57>>,
     <<":", 58>>, <<"F", 70>>, <<"N", 78>>, <<"T", 84>>,
     <<"[", 91>>, <<"]", 93>>,
     <<"a", 97>>, <<"b", 98>>, <<"c", 99>>, <<"e", 101>>, <<"f", 102>>,
     <<"g", 103>>, <<"i", 105>>, <<"l", 108>>, <<"n", 110>>, <<"o", 111>>,
     <<"p", 112>>, <<"r", 114>>, <<"s", 115>>, <<"t", 116>>, <<"u", 117>>,
     <<"{", 123>>, <<"}", 125>> >>

CharOfByte(b) ==
  IF \E p \in Range(AsciiTable) : p[2] = b
  THEN (CHOOSE p \in Range(AsciiTable) : p[2] = b)[1]
  ELSE "?"

ByteOfChar(c) == (CHOOSE p \in Range(AsciiTable) : p[1] = c)[2]

TextDecode(bytes) == [i \in DOMAIN bytes |-> CharOfByte(bytes[i])]

TextEncode(text) == [i \in DOMAIN text |-> ByteOfChar(text[i])]

(***************************************************************************)
(* DataView reads.  Each is defined only when the bytes lie inside the     *)
(* buffer; InView(buf, o, n) is the test the engine makes before the read  *)
(* (a failed test is a RangeError).  All multi-byte reads are made with    *)
(* littleEndian = true.                                                    *)
(***************************************************************************)
InView(buf, o, n) == o >= 0 /\ n >= 0 /\ o + n <= Len(buf)

getUint8(buf, o) == buf[o + 1]

getInt8(buf, o) == IF buf[o + 1] >= 128 THEN buf[o + 1] - 256 ELSE buf[o + 1]

getUint16(buf, o) == buf[o + 1] + 256 * buf[o + 2]

\* The model's buffers keep every u32 field below 2^31.
getUint32(buf, o) ==
  buf[o + 1] + 256 * buf[o + 2] + 65536 * buf[o + 3] + 16777216 * buf[o + 4]

\* A 32-bit float is kept as its four bytes, most significant first.
getFloat32LE(buf, o) == <<buf[o + 4], buf[o + 3], buf[o + 2], buf[o + 1]>>


(***************************************************************************)
(* JSON values.  Every value is a record of the same shape: t is the kind, *)
(* n the truth value of a boolean, s the text of a string or the literal   *)
(* of a number, kids the elements of an array or the key, value, key,      *)
(* value, ... list of an object.                                           *)
(***************************************************************************)
JNull == [t |-> "null", n |-> 0, s |-> <<>>, kids |-> <<>>]

JBool(b) == [t |-> "bool", n |-> IF b THEN 1 ELSE 0, s |-> <<>>, kids |-> <<>>]

JNum(lit) == [t |-> "num", n |-> 0, s |-> lit, kids |-> <<>>]

JStr(chars) == [t |-> "str", n |-> 0, s |-> chars, kids |-> <<>>]

JArr(elems) == [t |-> "arr", n |-> 0, s |-> <<>>, kids |-> elems]

JObj(members) == [t |-> "obj", n |-> 0, s |-> <<>>, kids |-> members]

Digits == {"0", "1", "2", "3", "4", "5", "6", "7", "8", "9"}

Drop(t, k) == SubSeq(t, k + 1, Len(t))

HasPrefix(t, p) == Len(t) >= Len(p) /\ SubSeq(t, 1, Len(p)) = p

RECURSIVE SkipWs(_)
SkipWs(t) == IF t # <<>> /\ Head(t) = " " THEN SkipWs(Tail(t)) ELSE t

\* the length of the longest prefix of t made of digits
RECURSIVE DigitRun(_)
DigitRun(t) == IF t # <<>> /\ Head(t) \in Digits THEN 1 + DigitRun(Tail(t)) ELSE 0

\* A number's literal without the spelling differences that denote the same
\* number: a fraction's trailing zeros, and an empty fraction.
RECURSIVE StripZeros(_)
StripZeros(f) ==
  IF f # <<>> /\ f[Len(f)] = "0" THEN StripZeros(SubSeq(f, 1, Len(f) - 1)) ELSE f

NumCanon(sign, int, frac, exp) ==
  LET f == StripZeros(frac) IN
  sign \o int \o (IF f = <<>> THEN <<>> ELSE <<".">> \o f)
       \o (IF exp = <<>> THEN <<>> ELSE <<"e">> \o exp)

JFail == [ok |-> FALSE, v |-> JNull, rest |-> <<>>]

JOk(v, rest) == [ok |-> TRUE, v |-> v, rest |-> rest]

\* number: -? (0 | [1-9][0-9]*) (. [0-9]+)? (e -? [0-9]+)?
\* Each step takes the text left to it and the parts scanned so far.
NumberEnd(sign, int, frac, exp, rest) ==
  JOk(JNum(NumCanon(sign, int, frac, exp)), rest)

NumberExpDigits(sign, int, frac, esign, t, ne) ==
  IF ne = 0 THEN JFail
  ELSE NumberEnd(sign, int, frac, esign \o SubSeq(t, 1, ne), Drop(t, ne))

NumberExpSign(sign, int, frac, t) ==
  IF t # <<>> /\ Head(t) = "-"
  THEN NumberExpDigits(sign, int, frac, <<"-">>, Tail(t), DigitRun(Tail(t)))
  ELSE NumberExpDigits(sign, int, frac, <<>>, t, DigitRun(t))

NumberExp(sign, int, frac, t) ==
  IF t # <<>> /\ Head(t) = "e"
  THEN NumberExpSign(sign, int, frac, Tail(t))
  ELSE NumberEnd(sign, int, frac, <<>>, t)

NumberFracDigits(sign, int, t, nf) ==
  IF nf = 0 THEN JFail
  ELSE NumberExp(sign, int, SubSeq(t, 1, nf), Drop(t, nf))

NumberFrac(sign, int, t) ==
  IF t # <<>> /\ Head(t) = "."
  THEN NumberFracDigits(sign, int, Tail(t), DigitRun(Tail(t)))
  ELSE NumberExp(sign, int, <<>>, t)

NumberIntDigits(sign, t, ni) ==
  IF ni = 0 THEN JFail
  ELSE NumberFrac(sign, SubSeq(t, 1, ni), Drop(t, ni))

NumberInt(sign, t) ==
  IF t # <<>> /\ Head(t) = "0"
  THEN NumberIntDigits(sign, t, 1)
  ELSE NumberIntDigits(sign, t, DigitRun(t))

ParseNumber(t) ==
  IF t # <<>> /\ Head(t) = "-" THEN NumberInt(<<"-">>, Tail(t)) ELSE NumberInt(<<>>, t)

\* the position of the first " after the opening one
FirstQuote(t) ==
  CHOOSE i \in 2..Len(t) : t[i] = "\"" /\ \A j \in 2..(i - 1) : t[j] # "\""

StringEnd(t, close) == JOk(JStr(SubSeq(t, 2, close - 1)), Drop(t, close))

\* string: " chars ", with neither escapes nor control characters in the alphabet
ParseString(t) ==
  IF t = <<>> \/ Head(t) # "\"" \/ ~ \E i \in 2..Len(t) : t[i] = "\""
  THEN JFail
  ELSE StringEnd(t, FirstQuote(t))

\* an object's members with key k set to v: a repeated key keeps its place and
\* takes the later value
PutKey(members, k, v) ==
  IF \E i \in 1..(Len(members) \div 2) : members[2 * i - 1] = k
  THEN [j \in DOMAIN members |->
          IF j % 2 = 0 /\ members[j - 1] = k THEN v ELSE members[j]]
  ELSE members \o <<k, v>>

RECURSIVE ParseValueAt(_), ElementsAfter(_, _), MembersAfter(_, _, _)

\* a value, after any white space
ParseValue(t) == ParseValueAt(SkipWs(t))

\* value (, value)* ]
ParseElements(t, acc) == ElementsAfter(ParseValue(t), acc)

\* string : value (, string : value)* }
MemberValue(k, c) ==
  IF k.ok /\ c # <<>> /\ Head(c) = ":" THEN ParseValue(Tail(c)) ELSE JFail

MemberKeyed(k, c, acc) == MembersAfter(k, MemberValue(k, c), acc)

MemberKey(k, acc) == MemberKeyed(k, SkipWs(k.rest), acc)

ParseMembers(t, acc) == MemberKey(ParseString(SkipWs(t)), acc)

ArrayAt(u) ==
  IF u # <<>> /\ Head(u) = "]" THEN JOk(JArr(<<>>), Tail(u)) ELSE ParseElements(u, <<>>)

ObjectAt(u) ==
  IF u # <<>> /\ Head(u) = "}" THEN JOk(JObj(<<>>), Tail(u)) ELSE ParseMembers(u, <<>>)

ParseValueAt(t) ==
  IF t = <<>> THEN JFail
  ELSE IF HasPrefix(t, <<"n", "u", "l", "l">>) THEN JOk(JNull, Drop(t, 4))
  ELSE IF HasPrefix(t, <<"t", "r", "u", "e">>) THEN JOk(JBool(TRUE), Drop(t, 4))
  ELSE IF HasPrefix(t, <<"f", "a", "l", "s", "e">>) THEN JOk(JBool(FALSE), Drop(t, 5))
  ELSE IF Head(t) = "\"" THEN ParseString(t)
  ELSE IF Head(t) = "-" \/ Head(t) \in Digits THEN ParseNumber(t)
  ELSE IF Head(t) = "[" THEN ArrayAt(SkipWs(Tail(t)))
  ELSE IF Head(t) = "{" THEN ObjectAt(SkipWs(Tail(t)))
  ELSE JFail

\* after element e: the closing bracket, or a comma and the next element
ElementsAfter(e, acc) ==
  IF ~ e.ok THEN JFail
  ELSE IF SkipWs(e.rest) = <<>> THEN JFail
  ELSE IF Head(SkipWs(e.rest)) = "]"
       THEN JOk(JArr(Append(acc, e.v)), Tail(SkipWs(e.rest)))
  ELSE IF Head(SkipWs(e.rest)) = ","
       THEN ParseElements(Tail(SkipWs(e.rest)), Append(acc, e.v))
  ELSE JFail

\* after member k : e
MembersAfter(k, e, acc) ==
  IF ~ e.ok THEN JFail
  ELSE IF SkipWs(e.rest) = <<>> THEN JFail
  ELSE IF Head(SkipWs(e.rest)) = "}"
       THEN JOk(JObj(PutKey(acc, k.v, e.v)), Tail(SkipWs(e.rest)))
  ELSE IF Head(SkipWs(e.rest)) = ","
       THEN ParseMembers(Tail(SkipWs(e.rest)), PutKey(acc, k.v, e.v))
  ELSE JFail

\* JSON.parse: a value and nothing but white space after it, or a SyntaxError
ParseEnd(r) ==
  IF r.ok /\ SkipWs(r.rest) = <<>> THEN [ok |-> TRUE, v |-> r.v]
  ELSE [ok |-> FALSE, v |-> JNull]

JSONParse(text) == ParseEnd(ParseValue(text))

(***************************************************************************)
(* SHACDecoder: header.                                                    *)
(***************************************************************************)
MAGIC == <<83, 72, 65, 67>>     \* 0x53 0x48 0x41 0x43, 'SHAC'

\* this.header = null
NullHeader ==
  [magic |-> "null", version |-> 0, order |-> 0, n_channels |-> 0,
   sample_rate |-> 0, bit_depth |-> 0, n_samples |-> 0, n_layers |-> 0,
   normalization |-> 0]

\* arrayEquals(a, b), and the elements of a it looks at before it returns
arrayEquals(a, b) ==
  Len(a) = Len(b) /\ \A i \in 1..Len(a) : a[i] = b[i]

arrayEqualsReads(a, b) ==
  IF Len(a) # Len(b) THEN {}
  ELSE {i - 1 : i \in {j \in 1..Len(a) : \A k \in 1..(j - 1) : a[k] = b[k]}}

\* the header's fields after the magic, as <<offset, width>>, in reading order
HeaderFields ==
  <<<<4, 2>>, <<6, 2>>, <<8, 2>>, <<10, 4>>, <<14, 4>>, <<18, 4>>, <<22, 2>>, <<24, 2>>>>

\* the offsets read from the header's fields until one read leaves the buffer
HeaderFieldReads(buf) ==
  UNION {f[1]..(f[1] + f[2] - 1) :
           f \in {HeaderFields[i] : i \in {j \in 1..Len(HeaderFields) :
                    \A k \in 1..j : InView(buf, HeaderFields[k][1], HeaderFields[k][2])}}}

\* readHeader without the comparison of the magic bytes
readHeaderSkipsMagic(buf) ==
  IF ~ InView(buf, 0, 26)
  THEN [ok |-> FALSE, err |-> "RangeError", header |-> NullHeader,
        reads |-> HeaderFieldReads(buf)]
  ELSE [ok |-> getUint16(buf, 4) = 1,
        err |-> IF getUint16(buf, 4) = 1 THEN "" ELSE "UnsupportedVersion",
        header |-> [magic |-> "SHAC",
                    version |-> getUint16(buf, 4),
                    order |-> getUint16(buf, 6),
                    n_channels |-> getUint16(buf, 8),
                    sample_rate |-> getUint32(buf, 10),
                    bit_depth |-> getUint32(buf, 14),
                    n_samples |-> getUint32(buf, 18),
                    n_layers |-> getUint16(buf, 22),
                    normalization |-> getUint16(buf, 24)],
        reads |-> 4..25]

\* readHeader(): ok, or the error thrown; header is this.header afterwards and
\* reads the offsets of the buffer the call has read
readHeader(buf) ==
  IF ~ InView(buf, 0, 4)
  THEN [ok |-> FALSE, err |-> "RangeError", header |-> NullHeader, reads |-> {}]
  ELSE IF ~ arrayEquals(Slice(buf, 0, 4), MAGIC)
  THEN [ok |-> FALSE, err |-> "BadMagic", header |-> NullHeader,
        reads |-> arrayEqualsReads(Slice(buf, 0, 4), MAGIC)]
  ELSE IF ~ InView(buf, 0, 26)
  THEN [ok |-> FALSE, err |-> "RangeError", header |-> NullHeader,
        reads |-> (0..3) \cup HeaderFieldReads(buf)]
  ELSE LET h == [magic |-> "SHAC",
                 version |-> getUint16(buf, 4),
                 order |-> getUint16(buf, 6),
                 n_channels |-> getUint16(buf, 8),
                 sample_rate |-> getUint32(buf, 10),
                 bit_depth |-> getUint32(buf, 14),
                 n_samples |-> getUint32(buf, 18),
                 n_layers |-> getUint16(buf, 22),
                 normalization |-> getUint16(buf, 24)]
       IN [ok |-> h.version = 1,
           err |-> IF h.version = 1 THEN "" ELSE "UnsupportedVersion",
           header |-> h,
           reads |-> 0..25]

(***************************************************************************)
(* SHACDecoder: layer index.                                               *)
(***************************************************************************)
bytesPerSample(bitDepth) == IF bitDepth = 16 THEN 2 ELSE 4

\* The loop of buildLayerIndex from layer i on, with the local offset, the
\* entries pushed so far and the offsets read so far.  A read outside the
\* buffer (getUint16, getUint32, new Uint8Array) throws a RangeError and leaves
\* this.layerIndex with the entries pushed before it.
RECURSIVE buildLayerIndexFrom(_, _, _, _, _, _)
buildLayerIndexFrom(buf, h, i, offset, index, reads) ==
  IF i >= h.n_layers
  THEN [ok |-> TRUE, err |-> "", index |-> index, reads |-> reads]
  ELSE IF ~ InView(buf, offset, 2)
  THEN [ok |-> FALSE, err |-> "RangeError", index |-> index, reads |-> reads]
  ELSE IF ~ InView(buf, offset + 2, 4)
  THEN [ok |-> FALSE, err |-> "RangeError", index |-> index,
        reads |-> reads \cup (offset..(offset + 1))]
  ELSE LET idLength == getUint16(buf, offset)
           metadataLength == getUint32(buf, offset + 2)
           idStart == offset + 6
           r6 == reads \cup (offset..(offset + 5))
       IN IF ~ InView(buf, idStart, idLength)
          THEN [ok |-> FALSE, err |-> "RangeError", index |-> index, reads |-> r6]
          ELSE LET layerId == TextDecode(Slice(buf, idStart, idLength))
                   dataOffset == idStart + idLength + metadataLength
                   audioDataSize ==
                     h.n_channels * h.n_samples * bytesPerSample(h.bit_depth)
                   entry == [id |-> layerId,
                             headerOffset |-> dataOffset - metadataLength - idLength - 6,
                             dataOffset |-> dataOffset,
                             dataSize |-> audioDataSize,
                             metadataLength |-> metadataLength]
               IN buildLayerIndexFrom(buf, h, i + 1, dataOffset + audioDataSize,
                                      Append(index, entry),
                                      r6 \cup (idStart..(idStart + idLength - 1)))

buildLayerIndexAtMagic(buf, h) == buildLayerIndexFrom(buf, h, 0, 4, <<>>, {})

\* buildLayerIndex(): offset = 26, this.layerIndex = []
buildLayerIndex(buf, h) == buildLayerIndexFrom(buf, h, 0, 26, <<>>, {})


(***************************************************************************)
(* SHACDecoder: layer metadata.                                            *)
(***************************************************************************)
\* String.prototype.replace with a global pattern of literal characters
RECURSIVE ReplaceAll(_, _, _)
ReplaceAll(t, pat, rep) ==
  IF t = <<>> THEN <<>>
  ELSE IF HasPrefix(t, pat) THEN rep \o ReplaceAll(Drop(t, Len(pat)), pat, rep)
  ELSE <<Head(t)>> \o ReplaceAll(Tail(t), pat, rep)

\* the chain of replace calls, as <<pattern, replacement>> in calling order
LegacyRewrites ==
  << <<<<"'">>, <<"\"">>>>,
     <<<<"(">>, <<"[">>>>,
     <<<<")">>, <<"]">>>>,
     <<<<"T", "r", "u", "e">>, <<"t", "r", "u", "e">>>>,
     <<<<"F", "a", "l", "s", "e">>, <<"f", "a", "l", "s", "e">>>>,
     <<<<"N", "o", "n", "e">>, <<"n", "u", "l", "l">>>> >>

\* the text after the first k replace calls of the chain
RECURSIVE applyRewrites(_, _)
applyRewrites(t, k) ==
  IF k = 0 THEN t
  ELSE ReplaceAll(applyRewrites(t, k - 1), LegacyRewrites[k][1], LegacyRewrites[k][2])

\* the Python dict text rewritten towards JSON
normalizeLegacy(metadataStr) == applyRewrites(metadataStr, Len(LegacyRewrites))

\* { position: [0, 0, 0], gain: 1.0 }
DefaultMetadata ==
  JObj(<<JStr(<<"p", "o", "s", "i", "t", "i", "o", "n">>),
         JArr(<<JNum(<<"0">>), JNum(<<"0">>), JNum(<<"0">>)>>),
         JStr(<<"g", "a", "i", "n">>),
         JNum(<<"1">>)>>)

\* the cascade with the rewritten text tried first
metadataOfLegacyFirst(strict, legacy) ==
  IF legacy.ok THEN [v |-> legacy.v, via |-> "legacy"]
  ELSE IF strict.ok THEN [v |-> strict.v, via |-> "json"]
  ELSE [v |-> DefaultMetadata, via |-> "default"]

\* the try / catch cascade over the two parse attempts: the metadata, and
\* which of the three branches gave it
metadataOf(strict, legacy) ==
  IF strict.ok THEN [v |-> strict.v, via |-> "json"]
  ELSE IF legacy.ok THEN [v |-> legacy.v, via |-> "legacy"]
  ELSE [v |-> DefaultMetadata, via |-> "default"]

parseMetadata(metadataStr) ==
  metadataOf(JSONParse(metadataStr), JSONParse(normalizeLegacy(metadataStr)))

(***************************************************************************)
(* SHACDecoder: audio payload.  A decoded 16-bit sample is the pair        *)
(* <<numerator, denominator>> of value / 32767.0; a decoded 32-bit sample  *)
(* is the float's four bytes, most significant first.                      *)
(***************************************************************************)
\* the element index of a sample-major (interleaved) payload
FlatIndexInterleaved(ch, s, numChannels, numSamples) == s * numChannels + ch

\* the value of the running element index when the loops stand at (ch, s)
FlatIndex(ch, s, numChannels, numSamples) == ch * numSamples + s

\* the byte-wise read with the high byte read unsigned
Sample16UnalignedUnsigned(buf, o) ==
  <<getUint8(buf, o + 1) * 256 + getUint8(buf, o), 32767>>

\* low = getUint8, high = getInt8, value = (high << 8) | low: the low eight bits
\* of high << 8 are zero, so the or adds low
Sample16Unaligned(buf, o) ==
  LET low == getUint8(buf, o)
      high == getInt8(buf, o + 1)
  IN <<high * 256 + low, 32767>>

\* element k of new Int16Array(buffer, offset, n), in the platform's byte order,
\* which is little-endian wherever the player runs
Int16ArrayAt(buf, offset, k) ==
  LET u == getUint16(buf, offset + 2 * k) IN IF u >= 32768 THEN u - 65536 ELSE u

Sample16Aligned(buf, offset, k) == <<Int16ArrayAt(buf, offset, k), 32767>>

\* getFloat32(offset + idx * 4, true)
Sample32Unaligned(buf, o) == getFloat32LE(buf, o)

\* element k of new Float32Array(buffer, offset, n)
Sample32Aligned(buf, offset, k) == getFloat32LE(buf, offset + 4 * k)

\* the (ch, s) pairs the loops visit
LoopPairs(numChannels, numSamples) ==
  {<<ch, s>> : ch \in 0..(numChannels - 1), s \in 0..(numSamples - 1)}

\* the byte offset of the sample at (ch, s)
SampleOffset(offset, ch, s, numChannels, numSamples, width) ==
  offset + FlatIndex(ch, s, numChannels, numSamples) * width

\* (ch, s) pairs the element-wise loops reach before a read leaves the buffer:
\* those with every pair up to them inside the buffer
PairsRead(buf, offset, numChannels, numSamples, width) ==
  {p \in LoopPairs(numChannels, numSamples) :
     \A q \in LoopPairs(numChannels, numSamples) :
       (q[1] < p[1] \/ (q[1] = p[1] /\ q[2] <= p[2]))
         => InView(buf, SampleOffset(offset, q[1], q[2], numChannels, numSamples, width),
                   width)}

\* whether the reads succeed: the typed view is made over the whole payload at
\* once, the element-wise loops read sample by sample
audioReadOk(buf, offset, numChannels, numSamples, width) ==
  IF offset % width = 0
  THEN InView(buf, offset, numChannels * numSamples * width)
  ELSE PairsRead(buf, offset, numChannels, numSamples, width)
         = LoopPairs(numChannels, numSamples)

audioReads(buf, offset, numChannels, numSamples, width) ==
  IF offset % width = 0
  THEN (IF InView(buf, offset, numChannels * numSamples * width)
        THEN offset..(offset + numChannels * numSamples * width - 1) ELSE {})
  ELSE UNION {SampleOffset(offset, p[1], p[2], numChannels, numSamples, width)
                ..(SampleOffset(offset, p[1], p[2], numChannels, numSamples, width)
                     + width - 1) :
              p \in PairsRead(buf, offset, numChannels, numSamples, width)}

\* audioData[ch][s] as the branch taken computes it
readSample(buf, offset, ch, s, numChannels, numSamples, bitDepth) ==
  IF bitDepth = 16
  THEN IF offset % 2 # 0
       THEN Sample16Unaligned(buf, offset + FlatIndex(ch, s, numChannels, numSamples) * 2)
       ELSE Sample16Aligned(buf, offset, FlatIndex(ch, s, numChannels, numSamples))
  ELSE IF offset % 4 # 0
       THEN Sample32Unaligned(buf, offset + FlatIndex(ch, s, numChannels, numSamples) * 4)
       ELSE Sample32Aligned(buf, offset, FlatIndex(ch, s, numChannels, numSamples))

audioOutcome(ok, audioData, reads) ==
  [ok |-> ok,
   err |-> IF ok THEN "" ELSE "RangeError",
   audioData |-> IF ok THEN audioData ELSE <<>>,
   reads |-> reads]

\* readAudioDataOptimized(offset, numChannels, numSamples, bitDepth)
readAudioDataOptimized(buf, offset, numChannels, numSamples, bitDepth) ==
  audioOutcome(
    audioReadOk(buf, offset, numChannels, numSamples, bytesPerSample(bitDepth)),
    [c \in 1..numChannels |->
       [k \in 1..numSamples |->
          IF InView(buf, SampleOffset(offset, c - 1, k - 1, numChannels, numSamples,
                                      bytesPerSample(bitDepth)),
                    bytesPerSample(bitDepth))
          THEN readSample(buf, offset, c - 1, k - 1, numChannels, numSamples, bitDepth)
          ELSE <<>>]],
    audioReads(buf, offset, numChannels, numSamples, bytesPerSample(bitDepth)))

(***************************************************************************)
(* SHACDecoder: one layer.                                                 *)
(***************************************************************************)
layerFailed(err, reads) ==
  [ok |-> FALSE, err |-> err, id |-> <<>>, metadata |-> JNull, via |-> "",
   audioData |-> <<>>, samplesPerChannel |-> 0, reads |-> reads]

\* the promise's outcome, given the parsed metadata m and the audio read a
layerOutcome(layerId, m, a, samplesPerChannel, reads) ==
  IF ~ a.ok
  THEN layerFailed(a.err, reads \cup a.reads)
  ELSE [ok |-> TRUE, err |-> "", id |-> layerId, metadata |-> m.v, via |-> m.via,
        audioData |-> a.audioData, samplesPerChannel |-> samplesPerChannel,
        reads |-> reads \cup a.reads]

\* the offsets read before the metadata: the id's length and the id (the
\* metadata's length is skipped, the index entry holds it)
layerHeaderReads(layerInfo, idLength) ==
  (layerInfo.headerOffset..(layerInfo.headerOffset + 1))
    \cup ((layerInfo.headerOffset + 6)..(layerInfo.headerOffset + 5 + idLength))

\* readLayerOptimized from the id on, with the id's length read
readLayerAt(buf, h, layerInfo, idLength) ==
  IF ~ InView(buf, layerInfo.headerOffset + 6 + idLength, layerInfo.metadataLength)
  THEN layerFailed("RangeError", layerHeaderReads(layerInfo, idLength))
  ELSE layerOutcome(
         TextDecode(Slice(buf, layerInfo.headerOffset + 6, idLength)),
         parseMetadata(TextDecode(Slice(buf, layerInfo.headerOffset + 6 + idLength,
                                        layerInfo.metadataLength))),
         readAudioDataOptimized(buf, layerInfo.dataOffset, h.n_channels, h.n_samples,
                                h.bit_depth),
         h.n_samples,
         layerHeaderReads(layerInfo, idLength)
           \cup ((layerInfo.headerOffset + 6 + idLength)
                   ..(layerInfo.headerOffset + 5 + idLength + layerInfo.metadataLength)))

\* readLayerOptimized(layerInfo): the promise's outcome
readLayerOptimized(buf, h, layerInfo) ==
  readLayerAt(buf, h, layerInfo, getUint16(buf, layerInfo.headerOffset))

(***************************************************************************)
(* Input buffers.  The files handed to decode are written in the container *)
(* layout (26-byte header, then per layer: u16 idLen, u32 metaLen, id,     *)
(* metadata, payload), and may be damaged: a wrong magic or version, a     *)
(* header whose fields disagree, a file cut short.                         *)
(***************************************************************************)
U16LE(n) == <<n % 256, (n \div 256) % 256>>

U32LE(n) == <<n % 256, (n \div 256) % 256, (n \div 65536) % 256, (n \div 16777216) % 256>>

EncodeHeader(magic, version, order, nch, rate, depth, nsamp, nlayers, norm) ==
  magic \o U16LE(version) \o U16LE(order) \o U16LE(nch) \o U32LE(rate)
        \o U32LE(depth) \o U32LE(nsamp) \o U16LE(nlayers) \o U16LE(norm)

\* payload bytes: low and high values, positive and negative sign bytes
BytePalette == <<0, 1, 255, 128, 127, 64, 200>>

PayloadBytes(seed, n) == [k \in 1..n |-> BytePalette[((seed + k) % Len(BytePalette)) + 1]]

EncodeLayer(id, meta, payload) ==
  U16LE(Len(id)) \o U32LE(Len(meta)) \o TextEncode(id) \o TextEncode(meta) \o payload

\* the metadata texts of the model's layers
MetaJson == <<"{", "\"", "g", "a", "i", "n", "\"", ":", "2", "}">>

MetaJsonKeepsText == <<"{", "\"", "t", "\"", ":", "\"", "N", "o", "n", "e", "\"", "}">>

MetaLegacyQuotes == <<"{", "'", "g", "a", "i", "n", "'", ":", "2", "}">>

MetaLegacyTuple ==
  <<"{", "'", "p", "'", ":", "(", "1", ",", "0", ")", ",", "'", "t", "'", ":",
    "T", "r", "u", "e", "}">>

MetaLegacyNone == <<"N", "o", "n", "e">>

MetaBroken == <<"{", "g", "a", "i", "n">>

MetaEmpty == <<>>

\* a layer of a file: its id and its metadata text
FirstLayerKinds ==
  {[id |-> <<"b", "c">>, meta |-> MetaJson],
   [id |-> <<"a">>, meta |-> MetaJsonKeepsText],
   [id |-> <<"a">>, meta |-> MetaLegacyQuotes],
   [id |-> <<"b", "c">>, meta |-> MetaLegacyTuple],
   [id |-> <<"b", "c">>, meta |-> MetaLegacyNone],
   [id |-> <<"a">>, meta |-> MetaBroken],
   [id |-> <<"a">>, meta |-> MetaEmpty]}

NextLayerKinds ==
  {[id |-> <<"a">>, meta |-> MetaLegacyQuotes],
   [id |-> <<"b">>, meta |-> MetaBroken]}

\* the layer lists of the model's files: up to MaxLayers layers
RECURSIVE LayerLists(_)
LayerLists(n) ==
  IF n = 0 THEN {<<>>}
  ELSE IF n = 1 THEN {<<k>> : k \in FirstLayerKinds}
  ELSE {Append(l, k) : l \in LayerLists(n - 1), k \in NextLayerKinds}

AllLayerLists == UNION {LayerLists(n) : n \in 0..MaxLayers}

EncodeFile(magic, version, order, nch, depth, nsamp, nlayers, layers) ==
  EncodeHeader(magic, version, order, nch, 48000, depth, nsamp, nlayers, 0)
    \o Concat([i \in 1..Len(layers) |->
                 EncodeLayer(layers[i].id, layers[i].meta,
                             PayloadBytes(i, nch * nsamp * bytesPerSample(depth)))])

\* the first keep bytes of a file
Truncate(buf, keep) == SubSeq(buf, 1, Min(keep, Len(buf)))

\* how a file is cut: not at all, or to a given length
Cuts(buf) == {Len(buf), Len(buf) - 1, Len(buf) - 5, 3, 20, 29}

\* (order, channel count) pairs: two that agree, two that do not
Shapes == {<<0, 1>>, <<1, 4>>, <<1, 1>>, <<0, 4>>}

BitDepths == {16, 32, 8}

\* well-formed headers over every layout, some cut short
LayoutFiles ==
  UNION {
    {Truncate(EncodeFile(MAGIC, 1, sh[1], sh[2], d, n, Len(ls), ls), keep) :
       keep \in {c \in Cuts(EncodeFile(MAGIC, 1, sh[1], sh[2], d, n, Len(ls), ls)) : c >= 0}} :
    sh \in Shapes, d \in BitDepths, n \in 0..MaxSamples, ls \in AllLayerLists}

\* files whose magic or version is wrong, and files that declare more layers
\* than they hold
FaultFiles ==
  {EncodeFile(m, v, 0, 1, 16, 1, nl, <<[id |-> <<"a">>, meta |-> MetaJson]>>) :
     m \in {MAGIC, <<83, 72, 65, 68>>, <<88, 72, 65, 67>>},
     v \in {0, 1, 2},
     nl \in 0..MaxLayers}

InputFiles == LayoutFiles \cup FaultFiles


(***************************************************************************)
(* Numbers of the spherical-harmonic routines.  An angle is a whole        *)
(* number q of quarter turns (q * pi/2 radians), where cos and sin         *)
(* are taken at their exact values -1, 0, 1; Math.cos and Math.sin differ  *)
(* from these by rounding only.  Fractions are exact: <<n, d>> is n/d in   *)
(* lowest terms, d > 0.                                                    *)
(***************************************************************************)
Abs(x) == IF x < 0 THEN 0 - x ELSE x

Cos(q) == <<1, 0, -1, 0>>[(q % 4) + 1]

Sin(q) == <<0, 1, 0, -1>>[(q % 4) + 1]

RECURSIVE Pow(_, _)
\* Math.pow(b, e) for a whole e >= 0
Pow(b, e) == IF e = 0 THEN 1 ELSE b * Pow(b, e - 1)

\* Math.sqrt of a perfect square
SqrtExact(n) == CHOOSE r \in 0..n : r * r = n

RECURSIVE Gcd(_, _)
Gcd(a, b) == IF b = 0 THEN a ELSE Gcd(b, a % b)

RatBy(n, d, g) ==
  IF d < 0 THEN <<(0 - n) \div g, (0 - d) \div g>> ELSE <<n \div g, d \div g>>

\* n/d in lowest terms
Rat(n, d) == RatBy(n, d, Gcd(Abs(n), Abs(d)))

RInt(n) == <<n, 1>>

RMulInt(a, k) == Rat(a[1] * k, a[2])

RDivInt(a, k) == Rat(a[1], a[2] * k)

RSub(a, b) == Rat(a[1] * b[2] - b[1] * a[2], a[2] * b[2])

(***************************************************************************)
(* SHACDecoder: rotation matrices.  A matrix is the Float32Array as a      *)
(* sequence, entry k of the array at position k + 1.  Its entries are      *)
(* fixed-point, Unit to the 1, and the angles of the rotation routines are *)
(* whole numbers of steps, QuarterTurn of them to pi/2.  At a quarter turn *)
(* cos and sin are exact; up to three steps off one they are its values    *)
(* plus the first-order term, which is their value rounded to 1 / Unit.    *)
(* A rotation routine is the sequence of its writes <<index, entry>>, in   *)
(* program order.                                                          *)
(***************************************************************************)
\* the quarter turn nearest to an angle, and the steps the angle is off it
turnsOf(a) == (a + QuarterTurn \div 2) \div QuarterTurn

stepsOff(a) == a - turnsOf(a) * QuarterTurn

\* Math.cos(a), Math.sin(a)
cosOf(a) == Unit * Cos(turnsOf(a)) - stepsOff(a) * Sin(turnsOf(a))

sinOf(a) == Unit * Sin(turnsOf(a)) + stepsOff(a) * Cos(turnsOf(a))

\* the product of two fixed-point numbers
Times(x, y) == (x * y) \div Unit

RECURSIVE PowOf(_, _)
\* Math.pow(x, e) of a fixed-point x for a whole e >= 0
PowOf(x, e) == IF e = 0 THEN Unit ELSE Times(x, PowOf(x, e - 1))

\* Math.round(angle * 573.0) for an angle of a >= 0 steps
\* (pi/2 * 573 = 900.07 to two places)
Round573(a) == (a * 180014 + 100 * QuarterTurn) \div (200 * QuarterTurn)

\* `${order}_${yawRounded}_${pitchRounded}_${rollRounded}`: the rounded angles
\* are the rounded products over 573
rotationCacheKey(order, yaw, pitch, roll) ==
  <<order, Round573(yaw), Round573(pitch), Round573(roll)>>

applyFirstOrderRotation(yaw, pitch, roll) ==
  << <<1 * 4 + 1, Times(cosOf(yaw), cosOf(pitch))>>,
     <<1 * 4 + 2, Times(sinOf(yaw), sinOf(pitch))>>,
     <<1 * 4 + 3, Times(0 - sinOf(yaw), cosOf(pitch))>>,
     <<2 * 4 + 1, 0 - sinOf(yaw)>>,
     <<2 * 4 + 2, cosOf(pitch)>>,
     <<2 * 4 + 3, cosOf(yaw)>>,
     <<3 * 4 + 1, Times(sinOf(yaw), cosOf(pitch))>>,
     <<3 * 4 + 2, Times(0 - cosOf(yaw), sinOf(pitch))>>,
     <<3 * 4 + 3, Times(cosOf(yaw), cosOf(pitch))>> >>

applySecondOrderRotation(yaw, pitch, roll) ==
  << <<(4 + 0) * 16 + (4 + 0), Times(Times(cosOf(2 * yaw), cosOf(pitch)), cosOf(pitch))>>,
     <<(4 + 1) * 16 + (4 + 1), Times(cosOf(yaw), cosOf(pitch))>>,
     <<(4 + 2) * 16 + (4 + 2), (3 * Times(cosOf(pitch), cosOf(pitch)) - Unit) \div 2>>,
     <<(4 + 3) * 16 + (4 + 3), Times(cosOf(yaw), cosOf(pitch))>>,
     <<(4 + 4) * 16 + (4 + 4), Times(Times(cosOf(2 * yaw), cosOf(pitch)), cosOf(pitch))>> >>

\* the loop over m = -3..3, the k-th round having m = k - 4
applyThirdOrderRotation(yaw, pitch, roll) ==
  [k \in 1..7 |->
     <<(9 + (k - 4) + 3) * 16 + (9 + (k - 4) + 3),
       Times(cosOf((k - 4) * yaw), PowOf(cosOf(pitch), Abs(k - 4)))>>]

\* the writes computeRotationMatrix makes after the identity loop
rotationWrites(order, yaw, pitch, roll) ==
  (IF order >= 1 THEN applyFirstOrderRotation(yaw, pitch, roll) ELSE <<>>)
    \o (IF order >= 2 THEN applySecondOrderRotation(yaw, pitch, roll) ELSE <<>>)
    \o (IF order >= 3 THEN applyThirdOrderRotation(yaw, pitch, roll) ELSE <<>>)

\* entry k of a zeroed Float32Array after the identity loop
identityEntry(size, k) ==
  IF \E i \in 0..(size - 1) : k = i * size + i THEN Unit ELSE 0

\* the rounds of writes that hit index k
writesTo(writes, k) == {n \in DOMAIN writes : writes[n][1] = k}

\* entry k after the writes: the last write to k, or what was there; a write
\* past the end of a typed array is dropped
entryAfter(init, writes, hits) ==
  IF hits = {} THEN init
  ELSE writes[CHOOSE n \in hits : \A o \in hits : o <= n][2]

matrixAfter(size, writes) ==
  [k1 \in 1..(size * size) |->
     entryAfter(identityEntry(size, k1 - 1), writes, writesTo(writes, k1 - 1))]

computeRotationMatrix(order, yaw, pitch, roll) ==
  matrixAfter((order + 1) * (order + 1), rotationWrites(order, yaw, pitch, roll))

\* getCachedRotationMatrix: the cache after the lookup; the matrix returned is
\* its entry for the key
rotationCacheAfter(cache, key, order, yaw, pitch, roll) ==
  IF key \in DOMAIN cache THEN cache
  ELSE [c \in DOMAIN cache \cup {key} |->
          IF c = key THEN computeRotationMatrix(order, yaw, pitch, roll)
          ELSE cache[c]]

getCachedRotationMatrix(cache, order, yaw, pitch, roll) ==
  rotationCacheAfter(cache, rotationCacheKey(order, yaw, pitch, roll),
                     order, yaw, pitch, roll)

RECURSIVE rotatedSum(_, _, _, _, _)
\* the inner loop of rotateAmbisonics from j on: sum += M[i * n + j] * ch[j][s]
rotatedSum(rotMatrix, channels, i, s, j) ==
  IF j >= Len(channels) THEN 0
  ELSE rotMatrix[i * Len(channels) + j + 1] * channels[j + 1][s + 1]
         + rotatedSum(rotMatrix, channels, i, s, j + 1)

\* the values rotateAmbisonics stores in rotatedData: matrix entries are
\* fixed-point, samples are not
rotatedSamples(rotMatrix, channels, numSamples) ==
  [i1 \in 1..Len(channels) |->
     [s1 \in 1..numSamples |->
        rotatedSum(rotMatrix, channels, i1 - 1, s1 - 1, 0) \div Unit]]

\* the channel set rotateAmbisonics writes into, written over its input
rotatedDataInPlace(audioData, heapSize) == audioData

\* rotatedData: one new Float32Array per input channel
rotatedData(audioData, heapSize) ==
  [ch \in 1..Len(audioData) |-> heapSize + ch]

\* the buffers after rotatedData[i][s] = sum for every i and s
heapAfter(heapNow, ids, rows) ==
  [b \in DOMAIN heapNow \cup Range(ids) |->
     IF b \in Range(ids) THEN rows[CHOOSE i \in DOMAIN ids : ids[i] = b]
     ELSE heapNow[b]]

(***************************************************************************)
(* Spherical-harmonic coefficients.  A coefficient is kept exactly: it is  *)
(* the fraction q when irr is FALSE, and sqrt(rad / (4 pi)) * q, times     *)
(* sqrt(2) when root2 holds, when irr is TRUE.  The second kind is a       *)
(* multiple of 1 / sqrt(pi), so it is never a nonzero fraction.            *)
(***************************************************************************)
Number(q) == [irr |-> FALSE, rad |-> <<1, 1>>, root2 |-> FALSE, q |-> q]

OverRootPi(rad, root2, q) == [irr |-> TRUE, rad |-> rad, root2 |-> root2, q |-> q]

\* an array element that was never assigned
Undefined == [irr |-> FALSE, rad |-> <<1, 1>>, root2 |-> FALSE, q |-> <<0, 0>>]

RECURSIVE factorial(_)
\* SpatialAudioEngine.factorial; the decoder's factorials[] holds the same
\* products
factorial(n) == IF n <= 1 THEN 1 ELSE n * factorial(n - 1)

\* the radicand of the SN3D factor of (l, m), without its 1 / (4 pi)
normRadicand(l, absM) == Rat((2 * l + 1) * factorial(l - absM), factorial(l + absM))

\* this.normalizationFactors = precomputeNormalizationFactors(maxOrder): a
\* factor for every l <= maxOrder and every m in -l..l, and none beyond
precomputeNormalizationFactors(maxOrder) ==
  [l \in 0..maxOrder |-> [m \in (0 - l)..l |-> normRadicand(l, Abs(m))]]

normalizationFactors == precomputeNormalizationFactors(3)

RECURSIVE legendreDiagonal(_, _)
\* P[m][m] = -P[m-1][m-1] * fact * somx2, fact running over 1, 3, 5, ...
legendreDiagonal(m, somx2) ==
  IF m = 0 THEN 1 ELSE (0 - legendreDiagonal(m - 1, somx2)) * (2 * m - 1) * somx2

RECURSIVE legendreColumn(_, _, _, _)
\* P[l][m] for l >= m, by the recurrences of computeAssociatedLegendre
legendreColumn(l, m, x, somx2) ==
  IF l = m THEN RInt(legendreDiagonal(m, somx2))
  ELSE IF l = m + 1 THEN RInt(x * (2 * m + 1) * legendreDiagonal(m, somx2))
  ELSE RDivInt(RSub(RMulInt(legendreColumn(l - 1, m, x, somx2), (2 * l - 1) * x),
                    RMulInt(legendreColumn(l - 2, m, x, somx2), l + m - 1)),
               l - m)

\* computeAssociatedLegendre(order, x) for x in {-1, 0, 1}: the table P, zero
\* where m > l
computeAssociatedLegendre(order, x) ==
  [l \in 0..order |->
     [m \in 0..order |->
        IF m > l THEN RInt(0)
        ELSE legendreColumn(l, m, x, SqrtExact((1 - x) * (1 + x)))]]

\* the degree and order of the coefficient at index idx of the double loop
degreeOf(idx) == CHOOSE l \in 0..idx : l * l <= idx /\ idx < (l + 1) * (l + 1)

orderOf(idx, l) == idx - l * l - l

\* sh = norm * P[l][absM], times sqrt(2) cos(m az) or sqrt(2) sin(|m| az)
vectorizedCoefficient(P, l, m, azimuth) ==
  OverRootPi(normalizationFactors[l][m], m # 0,
             RMulInt(P[l][Abs(m)],
                     IF m > 0 THEN Cos(m * azimuth)
                     ELSE IF m < 0 THEN Sin(Abs(m) * azimuth)
                     ELSE 1))

vectorizedCoeffs(order, azimuth, P) ==
  [i1 \in 1..((order + 1) * (order + 1)) |->
     vectorizedCoefficient(P, degreeOf(i1 - 1), orderOf(i1 - 1, degreeOf(i1 - 1)),
                           azimuth)]

\* n.toFixed(3) of an angle of q quarter turns, as thousandths
\* (pi/2 = 1.5707963...)
toFixed3(q) ==
  IF q < 0 THEN 0 - ((Abs(q) * 15707963 + 5000) \div 10000)
  ELSE (q * 15707963 + 5000) \div 10000

shCacheKey(order, azimuth, elevation) == <<order, toFixed3(azimuth), toFixed3(elevation)>>

\* computeSphericalHarmonicsVectorized on a cache miss: reading
\* normalizationFactors[l] of a degree that was not precomputed gives
\* undefined, and its [m] throws
vectorizedMiss(order, azimuth, elevation) ==
  IF \A l \in 0..order : l \in DOMAIN normalizationFactors
  THEN [ok |-> TRUE, err |-> "",
        coeffs |-> vectorizedCoeffs(order, azimuth,
                                    computeAssociatedLegendre(order, Sin(elevation)))]
  ELSE [ok |-> FALSE, err |-> "TypeError", coeffs |-> <<>>]

\* computeSphericalHarmonicsVectorized(order, azimuth, elevation): what the
\* call gives its caller
computeSphericalHarmonicsVectorized(cache, order, azimuth, elevation) ==
  IF shCacheKey(order, azimuth, elevation) \in DOMAIN cache
  THEN [ok |-> TRUE, err |-> "", coeffs |-> cache[shCacheKey(order, azimuth, elevation)]]
  ELSE vectorizedMiss(order, azimuth, elevation)

\* a capacity: Infinity is no number of entries
Infinity == [finite |-> FALSE, n |-> 0]

\* this.ROTATION_CACHE_SIZE, which no code reads
ROTATION_CACHE_SIZE == Infinity

SH_CACHE_SIZE == Infinity

\* this.shCache.size >= this.SH_CACHE_SIZE
sizeReaches(size, capacity) == capacity.finite /\ size >= capacity.n

\* the keys the cache keeps when a new one is set: with the size at the
\* capacity one key goes (the map's first, an order the function does not
\* record), which no size reaches while the capacity is Infinity
keysKept(cache) ==
  IF sizeReaches(Cardinality(DOMAIN cache), SH_CACHE_SIZE)
  THEN DOMAIN cache \ {CHOOSE k \in DOMAIN cache : TRUE}
  ELSE DOMAIN cache

\* this.shCache after the call
shCacheAfter(cache, key, r) ==
  IF key \in DOMAIN cache \/ ~ r.ok THEN cache
  ELSE [c \in keysKept(cache) \cup {key} |-> IF c = key THEN r.coeffs ELSE cache[c]]

(***************************************************************************)
(* SpatialAudioEngine: spherical harmonics.                                *)
(***************************************************************************)
\* Math.pow(1 - x*x, l/2) for x in {-1, 0, 1}
powHalf(base, l) == IF l = 0 THEN 1 ELSE base

RECURSIVE oddProduct(_)
\* the loop result *= (2i - 1) for i = 1..l
oddProduct(l) == IF l = 0 THEN 1 ELSE (2 * l - 1) * oddProduct(l - 1)

\* associatedLegendre(l, l, x)
legendreSame(l, x) == Pow(0 - 1, l) * oddProduct(l) * powHalf(1 - x * x, l)

RECURSIVE legendreNext(_, _, _, _, _, _)
\* the recurrence loop of associatedLegendre from ll on
legendreNext(ll, l, m, x, prev, curr) ==
  IF ll > l THEN curr
  ELSE legendreNext(ll + 1, l, m, x, curr,
                    RDivInt(RSub(RMulInt(curr, (2 * ll - 1) * x),
                                 RMulInt(prev, ll + m - 1)),
                            ll - m))

associatedLegendre(l, m, x) ==
  IF l = m THEN RInt(legendreSame(l, x))
  ELSE IF l = m + 1 THEN RInt(x * (2 * m + 1) * legendreSame(m, x))
  ELSE legendreNext(m + 2, l, m, x, RInt(legendreSame(m, x)),
                    RInt(x * (2 * m + 1) * legendreSame(m, x)))

computeHighOrderHarmonic(l, m, azimuth, elevation) ==
  OverRootPi(normRadicand(l, Abs(m)), FALSE,
             RMulInt(associatedLegendre(l, Abs(m), Cos(elevation)),
                     IF m = 0 THEN 1
                     ELSE IF m > 0 THEN Cos(m * azimuth)
                     ELSE Sin(Abs(m) * azimuth)))

\* Math.sqrt(a / (b * Math.PI)) * t
rootTimes(a, b, t) == OverRootPi(Rat(4 * a, b), FALSE, RInt(t))

firstDegree(m, sinEl, cosEl, azimuth) ==
  IF m = 0 - 1 THEN rootTimes(3, 4, sinEl * Sin(azimuth))
  ELSE IF m = 0 THEN rootTimes(3, 4, cosEl)
  ELSE rootTimes(3, 4, sinEl * Cos(azimuth))

secondDegree(m, sinEl, cosEl, azimuth) ==
  IF m = 0 - 2 THEN rootTimes(15, 16, sinEl * sinEl * Sin(2 * azimuth))
  ELSE IF m = 0 - 1 THEN rootTimes(15, 4, sinEl * cosEl * Sin(azimuth))
  ELSE IF m = 0 THEN rootTimes(5, 16, 3 * cosEl * cosEl - 1)
  ELSE IF m = 1 THEN rootTimes(15, 4, sinEl * cosEl * Cos(azimuth))
  ELSE rootTimes(15, 16, sinEl * sinEl * Cos(2 * azimuth))

thirdDegree(m, sinEl, cosEl, azimuth) ==
  IF m = 0 - 3 THEN rootTimes(35, 32, sinEl * sinEl * sinEl * Sin(3 * azimuth))
  ELSE IF m = 0 - 2 THEN rootTimes(105, 16, sinEl * sinEl * cosEl * Sin(2 * azimuth))
  ELSE IF m = 0 - 1
    THEN rootTimes(21, 32, sinEl * (5 * cosEl * cosEl - 1) * Sin(azimuth))
  ELSE IF m = 0 THEN rootTimes(7, 16, cosEl * (5 * cosEl * cosEl - 3))
  ELSE IF m = 1 THEN rootTimes(21, 32, sinEl * (5 * cosEl * cosEl - 1) * Cos(azimuth))
  ELSE IF m = 2 THEN rootTimes(105, 16, sinEl * sinEl * cosEl * Cos(2 * azimuth))
  ELSE rootTimes(35, 32, sinEl * sinEl * sinEl * Cos(3 * azimuth))

realSphericalHarmonic(l, m, azimuth, elevation) ==
  IF l = 0 THEN Number(RInt(1))
  ELSE IF l = 1 THEN firstDegree(m, Sin(elevation), Cos(elevation), azimuth)
  ELSE IF l = 2 THEN secondDegree(m, Sin(elevation), Cos(elevation), azimuth)
  ELSE IF l = 3 THEN thirdDegree(m, Sin(elevation), Cos(elevation), azimuth)
  ELSE computeHighOrderHarmonic(l, m, azimuth, elevation)

\* computeSphericalHarmonics(azimuth, elevation, numChannels): new
\* Array(numChannels), filled by the double loop up to order
\* Math.sqrt(numChannels) - 1
computeSphericalHarmonics(azimuth, elevation, numChannels) ==
  [i1 \in 1..numChannels |->
     IF (degreeOf(i1 - 1) + 1) * (degreeOf(i1 - 1) + 1) <= numChannels
     THEN realSphericalHarmonic(degreeOf(i1 - 1),
                                orderOf(i1 - 1, degreeOf(i1 - 1)),
                                azimuth, elevation)
     ELSE Undefined]

(***************************************************************************)
(* AudioBufferPool.  A Float32Array is an entry of a heap (its identity is *)
(* its place there, its value the samples it holds); bp is a pool with the *)
(* heap it works in: bp.heap, bp.pool (this.pool, references in the order  *)
(* pushed), bp.inUse (this.inUse) and bp.stats.                            *)
(***************************************************************************)
\* new Float32Array(size)
Float32Array(size) == [i \in 1..size |-> 0]

\* new AudioBufferPool()
newAudioBufferPool ==
  [pool |-> <<>>, inUse |-> {},
   stats |-> [created |-> 0, reused |-> 0, currentPoolSize |-> 0]]

\* the pool p with the heap its buffers are in
poolIn(heapNow, p) ==
  [heap |-> heapNow, pool |-> p.pool, inUse |-> p.inUse, stats |-> p.stats]

\* the pool object of bp
poolOf(bp) == [pool |-> bp.pool, inUse |-> bp.inUse, stats |-> bp.stats]

candidateOfSize(bp, i, size) == Len(bp.heap[bp.pool[i]]) = size

\* candidate.length === size && !this.inUse.has(candidate), for this.pool[i]
candidateFits(bp, i, size) ==
  Len(bp.heap[bp.pool[i]]) = size /\ bp.pool[i] \notin bp.inUse

\* the place in this.pool where the scan of acquire stops, 0 if it finds none
scanPool(bp, size) ==
  IF \E i \in 1..Len(bp.pool) : candidateFits(bp, i, size)
  THEN CHOOSE i \in 1..Len(bp.pool) :
         /\ candidateFits(bp, i, size)
         /\ \A j \in 1..(i - 1) : ~candidateFits(bp, j, size)
  ELSE 0

\* acquire, the scan having stopped at i
reuseAt(bp, i) ==
  [bp EXCEPT !.inUse = @ \cup {bp.pool[i]}, !.stats.reused = @ + 1]

\* acquire, the scan having found nothing
createBuffer32(bp, size) ==
  [heap |-> Append(bp.heap, Float32Array(size)),
   pool |-> Append(bp.pool, Len(bp.heap) + 1),
   inUse |-> bp.inUse \cup {Len(bp.heap) + 1},
   stats |-> [created |-> bp.stats.created + 1, reused |-> bp.stats.reused,
              currentPoolSize |-> Len(bp.pool) + 1]]

\* new Float32Array(size) throws a RangeError: acquire has to create a buffer
\* and the memory has room for no more of them
allocationFails(bp, size, room) == scanPool(bp, size) = 0 /\ room = 0

\* the pool and heap after an acquire(size) that returns
acquire(bp, size) ==
  IF scanPool(bp, size) # 0 THEN reuseAt(bp, scanPool(bp, size))
  ELSE createBuffer32(bp, size)

\* the buffer acquire(size) returns
acquired(bp, size) ==
  IF scanPool(bp, size) # 0 THEN bp.pool[scanPool(bp, size)]
  ELSE Len(bp.heap) + 1

fillNothing(buffer) == buffer

\* buffer.fill(0)
fill0(buffer) == [i \in DOMAIN buffer |-> 0]

\* the pool and heap after release(buffer)
release(bp, buffer) ==
  IF buffer \in bp.inUse
  THEN [bp EXCEPT !.inUse = @ \ {buffer}, !.heap[buffer] = fill0(@)]
  ELSE bp

RECURSIVE releaseAll(_, _)
releaseAll(bp, buffers) ==
  IF buffers = <<>> THEN bp
  ELSE releaseAll(release(bp, Head(buffers)), Tail(buffers))

(***************************************************************************)
(* SpatialAudioEngine: rendering a layer.  audioData is the channels of a  *)
(* layer as the decoder hands them over, each a sequence of samples.  What *)
(* the render leaves in the two channels of its AudioBuffer is kept as a   *)
(* word: "mono", "stereo", "binaural", or "NaN" when every sample is NaN.  *)
(***************************************************************************)
\* speakers.length of getVirtualSpeakerConfig(Math.sqrt(numChannels) - 1)
speakerCount(numChannels) ==
  IF numChannels >= 16 THEN 20
  ELSE IF numChannels >= 9 THEN 12
  ELSE 8

\* output[sample] = sum * speaker.gain, for every sample: the holder's writes
speakerOutput(bp, buffer) == [bp EXCEPT !.heap[buffer] = [i \in DOMAIN @ |-> 1]]

\* the room left after an acquire that returned
roomAfter(bp, size, room) == IF scanPool(bp, size) = 0 THEN room - 1 ELSE room

\* the loop of decodeToVirtualSpeakers with remaining speakers to go, in a
\* memory with room for so many more Float32Arrays; threw when acquire did
RECURSIVE decodeToVirtualSpeakers(_, _, _, _, _)
decodeToVirtualSpeakers(bp, outputs, numSamples, remaining, room) ==
  IF remaining = 0 THEN [bp |-> bp, outputs |-> outputs, threw |-> FALSE]
  ELSE IF allocationFails(bp, numSamples, room)
  THEN [bp |-> bp, outputs |-> outputs, threw |-> TRUE]
  ELSE decodeToVirtualSpeakers(
         speakerOutput(acquire(bp, numSamples), acquired(bp, numSamples)),
         Append(outputs, acquired(bp, numSamples)), numSamples, remaining - 1,
         roomAfter(bp, numSamples, room))

applySpatialHRTFKeeping(bp, speakerOutputs) == bp

\* the pool and heap after applySpatialHRTF
applySpatialHRTF(bp, speakerOutputs) == releaseAll(bp, speakerOutputs)

\* the pool and heap after decodeBinauralHRTF, which applySpatialHRTF ends
\* unless decodeToVirtualSpeakers threw
decodeBinauralHRTF(decoded) ==
  IF decoded.threw THEN decoded.bp
  ELSE applySpatialHRTF(decoded.bp, decoded.outputs)

\* some coefficient of computeSphericalHarmonics is left undefined, so that
\* every sum of decodeToVirtualSpeakers is NaN
coefficientMissing(numChannels) ==
  \E ch \in 1..numChannels : computeSphericalHarmonics(0, 0, numChannels)[ch] = Undefined

\* what the render leaves in left and right
renderedContent(numChannels) ==
  IF numChannels >= 4
  THEN IF coefficientMissing(numChannels) THEN "NaN" ELSE "binaural"
  ELSE IF numChannels >= 2 THEN "stereo"
  ELSE "mono"

NoAudioBuffer == [numberOfChannels |-> 0, length |-> 0, content |-> "none"]

\* a call that threw: nothing returned, created AudioBuffers made on the way
renderThrew(bp, err, created) ==
  [ok |-> FALSE, err |-> err, audioBuffer |-> NoAudioBuffer, created |-> created,
   bp |-> bp]

renderReturned(bp, numChannels, numSamples) ==
  [ok |-> TRUE, err |-> "",
   audioBuffer |-> [numberOfChannels |-> 2, length |-> numSamples,
                    content |-> renderedContent(numChannels)],
   created |-> 1, bp |-> bp]

\* !audioData || !Array.isArray(audioData) || audioData.length === 0
invalidAudioData(audioData) == Len(audioData) = 0

hasNoSamplesNever(audioData) == FALSE

\* numSamples === 0
hasNoSamples(audioData) == Len(audioData[1]) = 0

\* the end of createAudioBuffer after decodeBinauralHRTF
afterDecode(decoded, numChannels, numSamples) ==
  IF decoded.threw THEN renderThrew(decodeBinauralHRTF(decoded), "RangeError", 1)
  ELSE renderReturned(decodeBinauralHRTF(decoded), numChannels, numSamples)

\* createAudioBuffer(audioData, header) with the context and the pool as
\* they are, in a memory with room for so many more Float32Arrays: what it
\* returns or throws, AudioBuffers created, pool after
createAudioBuffer(context, bp, audioData, room) ==
  IF invalidAudioData(audioData) THEN renderThrew(bp, "Invalid audio data format", 0)
  ELSE IF hasNoSamples(audioData) THEN renderThrew(bp, "Audio data has no samples", 0)
  ELSE IF context = "null" THEN renderThrew(bp, "TypeError", 0)
  ELSE IF Len(audioData) >= 4
  THEN afterDecode(decodeToVirtualSpeakers(bp, <<>>, Len(audioData[1]),
                                           speakerCount(Len(audioData)), room),
                   Len(audioData), Len(audioData[1]))
  ELSE renderReturned(bp, Len(audioData), Len(audioData[1]))

(***************************************************************************)
(* SpatialAudioEngine: layers, nodes and playback.  An engine e is the     *)
(* fields of the object (audioContext, layers in the order of the map,     *)
(* isPlaying, startTime, pauseTime, audioSources), the pool and heap bp,   *)
(* and err, the reason the call being made has thrown ("" while it has     *)
(* not).  A node of the audio graph is a record: a source with what it is  *)
(* connected to and whether it was started or stopped, a panner with       *)
(* whether it is connected to the destination, or null.                    *)
(***************************************************************************)
NullNode == [kind |-> "null"]

\* createBufferSource() connected to where
SourceNode(to) == [kind |-> "source", to |-> to, state |-> "created"]

\* A position component as JSON.parse leaves it: a finite number, Infinity
\* (of a literal such as 1e999), a string, or undefined (a missing element)
Num(n) == [kind |-> "number", n |-> n]

NotANumber(kind) == [kind |-> kind, n |-> 0]

\* metadata.position: given as an array of components, or absent
Given(xyz) == [given |-> TRUE, xyz |-> xyz]

NotGiven == [given |-> FALSE, xyz |-> <<>>]

\* metadata.position || [0, 0, 0]
positionOrDefault(position) ==
  IF position.given THEN position ELSE Given(<<Num(0), Num(0), Num(0)>>)

\* position[i - 1]
componentAt(position, i) ==
  IF i \in DOMAIN position.xyz THEN position.xyz[i] ELSE NotANumber("undefined")

\* isFinite(position[i]) ? position[i] : 0
safeComponent(position, i) ==
  IF componentAt(position, i).kind = "number" THEN componentAt(position, i) ELSE Num(0)

\* createPanner() connected to the destination, placed at the safe position
\* with x flipped
PannerNode(position) ==
  [kind |-> "panner", connected |-> TRUE,
   position |-> Given(<<Num(0 - safeComponent(position, 1).n),
                        safeComponent(position, 2), safeComponent(position, 3)>>)]

\* layerInfo after createAudioNodes(layerInfo)
createAudioNodes(layerInfo) ==
  IF layerInfo.pre_mixed
  THEN [layerInfo EXCEPT !.sourceNode = SourceNode("destination"),
                         !.pannerNode = NullNode]
  ELSE [layerInfo EXCEPT !.sourceNode = SourceNode("panner"),
                         !.pannerNode = PannerNode(layerInfo.position)]

\* the layerInfo createSpatialLayer stores
layerInfoOf(context, layer, audioBuffer) ==
  IF context # "null"
  THEN createAudioNodes([name |-> layer.name, audioBuffer |-> audioBuffer,
                         position |-> positionOrDefault(layer.position),
                         pre_mixed |-> layer.pre_mixed,
                         sourceNode |-> NullNode, pannerNode |-> NullNode])
  ELSE [name |-> layer.name, audioBuffer |-> audioBuffer,
        position |-> positionOrDefault(layer.position),
        pre_mixed |-> layer.pre_mixed,
        sourceNode |-> NullNode, pannerNode |-> NullNode]

\* this.layers.set(name, layerInfo)
layersSet(layersNow, layerInfo) ==
  IF \E i \in DOMAIN layersNow : layersNow[i].name = layerInfo.name
  THEN [i \in DOMAIN layersNow |->
          IF layersNow[i].name = layerInfo.name THEN layerInfo ELSE layersNow[i]]
  ELSE Append(layersNow, layerInfo)

\* what loadSHAC pushes on audioSources for a layer
sourcesOf(preMixed, layer) ==
  IF preMixed /\ layer.source_references # <<>>
  THEN [k \in DOMAIN layer.source_references |->
          [name |-> layer.source_references[k].name,
           position |-> layer.source_references[k].position,
           isReference |-> TRUE]]
  ELSE <<[name |-> layer.name, position |-> positionOrDefault(layer.position),
          isReference |-> FALSE]>>

\* the first layer of the map without a panner, 0 if all have one
firstWithoutPanner(layersNow) ==
  IF \E i \in DOMAIN layersNow : layersNow[i].pannerNode = NullNode
  THEN CHOOSE i \in DOMAIN layersNow :
         /\ layersNow[i].pannerNode = NullNode
         /\ \A j \in 1..(i - 1) : layersNow[j].pannerNode # NullNode
  ELSE 0

\* the layers i to which a loop got that throws at layer k, all if k = 0
reached(i, k) == k = 0 \/ i < k

\* layer.sourceNode.stop()
stopSource(layer) == [layer EXCEPT !.sourceNode.state = "stopped"]

\* e after pause() at time now of the context's clock
pause(e, now) ==
  IF ~e.isPlaying THEN e
  ELSE [e EXCEPT !.pauseTime = now - e.startTime,
                 !.layers = [i \in DOMAIN @ |-> stopSource(@[i])],
                 !.isPlaying = FALSE]

\* layer.pannerNode.disconnect()
disconnectPanner(layer) == [layer EXCEPT !.pannerNode.connected = FALSE]

\* the loop of clear, which throws at the first layer whose pannerNode is null
disconnectAll(e, k) ==
  IF k = 0 THEN [e EXCEPT !.layers = <<>>, !.pauseTime = 0]
  ELSE [e EXCEPT !.layers = [i \in DOMAIN @ |->
                               IF i < k THEN disconnectPanner(@[i]) ELSE @[i]],
                 !.err = "TypeError"]

\* e after clear()
clear(e, now) ==
  disconnectAll(pause(e, now), firstWithoutPanner(e.layers))

\* the source node play makes for a layer, connected to its panner and started
startedSource == [kind |-> "source", to |-> "panner", state |-> "started"]

\* the second loop of play, which throws at the first layer whose pannerNode
\* is null
startAll(e, k) ==
  [e EXCEPT !.layers = [i \in DOMAIN @ |->
                          IF reached(i, k) THEN [@[i] EXCEPT !.sourceNode = startedSource]
                          ELSE @[i]],
            !.isPlaying = (k = 0),
            !.err = IF k = 0 THEN "" ELSE "TypeError"]

\* the first loop of play: nodes for the layers that lack one
withNodes(layersNow) ==
  [i \in DOMAIN layersNow |->
     IF layersNow[i].sourceNode = NullNode \/ layersNow[i].pannerNode = NullNode
     THEN createAudioNodes(layersNow[i])
     ELSE layersNow[i]]

\* play once the context is there
playWithContext(e, now) ==
  startAll([e EXCEPT !.layers = withNodes(@), !.startTime = now - e.pauseTime],
           firstWithoutPanner(withNodes(e.layers)))

\* e after createAudioContext(), new AudioContext() succeeding or throwing
createAudioContext(e, available) ==
  IF e.audioContext = "null" /\ available
  THEN [e EXCEPT !.audioContext = "context"]
  ELSE e

playAfterContext(e, now) ==
  IF e.audioContext = "null" THEN e ELSE playWithContext(e, now)

\* e after play()
play(e, now, available) ==
  IF e.isPlaying THEN e
  ELSE playAfterContext(createAudioContext(e, available), now)

\* e after replay()
replay(e, now, available) ==
  play([pause(e, now) EXCEPT !.pauseTime = 0], now, available)

\* getCurrentTime() at time now of the context's clock
getCurrentTime(e, now) ==
  IF e.isPlaying THEN now - e.startTime ELSE e.pauseTime

\* e with the layer rendered as r registered by createSpatialLayer and
\* its sources pushed by loadSHAC
withLayer(e, file, layer, r) ==
  [e EXCEPT !.bp = r.bp,
            !.layers = layersSet(@, layerInfoOf(e.audioContext, layer, r.audioBuffer)),
            !.audioSources = @ \o sourcesOf(file.preMixed, layer)]

\* the loop of loadSHAC from layer i on, which a throwing createSpatialLayer ends
RECURSIVE loadLayers(_, _, _, _)
RECURSIVE afterRender(_, _, _, _, _)
loadLayers(e, file, i, room) ==
  IF i > Len(file.layers) THEN e
  ELSE afterRender(e, file, i, room,
                   createAudioBuffer(e.audioContext, e.bp,
                                     file.layers[i].audioData, room))

afterRender(e, file, i, room, r) ==
  IF ~r.ok THEN [e EXCEPT !.bp = r.bp, !.err = r.err]
  ELSE loadLayers(withLayer(e, file, file.layers[i], r), file, i + 1, room)

\* loadSHAC after its clear()
loadAfterClear(e, file, room) ==
  IF e.err # "" THEN e
  ELSE loadLayers([e EXCEPT !.audioSources = <<>>], file, 1, room)

\* e after loadSHAC(shacData)
loadSHAC(e, now, file, room) == loadAfterClear(clear(e, now), file, room)

(***************************************************************************)
(* MovementPresets and the listener of the engine.  A length is held as    *)
(* the whole number of hundredths of a square (0.17 is 17), a speed factor *)
(* as hundredths too, and products, quotients and square roots are rounded *)
(* to the hundredth.  A point is a record [x, y, z]; the position of a     *)
(* source and a home position are triples, as in the code.                 *)
(***************************************************************************)
Max(a, b) == IF a > b THEN a ELSE b

\* a / b to the nearest whole number, for b > 0
RoundDiv(a, b) ==
  IF a >= 0 THEN (2 * a + b) \div (2 * b) ELSE 0 - ((2 * (0 - a) + b) \div (2 * b))

\* v * f for a factor f in hundredths
scaleBy(v, f) == RoundDiv(v * f, 100)

RECURSIVE sqrtBetween(_, _, _)
\* the greatest r of lo..hi with r * r <= v
sqrtBetween(v, lo, hi) ==
  IF lo = hi THEN lo
  ELSE IF ((lo + hi + 1) \div 2) * ((lo + hi + 1) \div 2) <= v
       THEN sqrtBetween(v, (lo + hi + 1) \div 2, hi)
       ELSE sqrtBetween(v, lo, ((lo + hi + 1) \div 2) - 1)

\* Math.sqrt(v)
Sqrt(v) == sqrtBetween(v, 0, 30000)

\* initializePresets(): the fields of the five presets that processMovement
\* and resetToHome read; speeds tells whether movement.horizontal_speed and
\* movement.vertical_speed are defined
explorer ==
  [radius |-> 3000, floor |-> -1000, ceiling |-> 1000, stage_barrier |-> 0,
   speeds |-> TRUE, horizontal_speed |-> 120, vertical_speed |-> 80,
   constraints |-> "explorer_freedom", home_position |-> <<0, 0, -300>>,
   pull_strength |-> 0, comfort_zone |-> 500, max_pull |-> 100,
   source_barriers |-> FALSE, barrier_radius |-> 250]

venue ==
  [radius |-> 3000, floor |-> -1000, ceiling |-> 1000, stage_barrier |-> 0,
   speeds |-> TRUE, horizontal_speed |-> 100, vertical_speed |-> 40,
   constraints |-> "venue_with_source_barriers", home_position |-> <<0, 0, -800>>,
   pull_strength |-> 0, comfort_zone |-> 500, max_pull |-> 100,
   source_barriers |-> TRUE, barrier_radius |-> 80]

asymmetric ==
  [radius |-> 3000, floor |-> -1000, ceiling |-> 1000, stage_barrier |-> 100,
   speeds |-> FALSE, horizontal_speed |-> 100, vertical_speed |-> 100,
   constraints |-> "directional_bias", home_position |-> <<0, 0, -200>>,
   pull_strength |-> 0, comfort_zone |-> 500, max_pull |-> 100,
   source_barriers |-> FALSE, barrier_radius |-> 250]

stadium ==
  [radius |-> 3000, floor |-> -1000, ceiling |-> 1000, stage_barrier |-> 300,
   speeds |-> TRUE, horizontal_speed |-> 150, vertical_speed |-> 60,
   constraints |-> "soft_boundaries", home_position |-> <<0, 200, -1500>>,
   pull_strength |-> 0, comfort_zone |-> 500, max_pull |-> 100,
   source_barriers |-> FALSE, barrier_radius |-> 250]

elastic ==
  [radius |-> 3000, floor |-> -1000, ceiling |-> 1000, stage_barrier |-> 50,
   speeds |-> TRUE, horizontal_speed |-> 110, vertical_speed |-> 60,
   constraints |-> "elastic_return", home_position |-> <<0, 100, -100>>,
   pull_strength |-> 25, comfort_zone |-> 600, max_pull |-> 60,
   source_barriers |-> FALSE, barrier_radius |-> 250]

PresetNames == {"explorer", "venue", "asymmetric", "stadium", "elastic"}

\* this.presets[presetName]
presets(presetName) ==
  CASE presetName = "explorer" -> explorer
    [] presetName = "venue" -> venue
    [] presetName = "asymmetric" -> asymmetric
    [] presetName = "stadium" -> stadium
    [] presetName = "elastic" -> elastic

\* source.position of an audio source, as the triple the presets index
sourcePos(source) ==
  <<source.position.xyz[1].n, source.position.xyz[2].n, source.position.xyz[3].n>>

\* Math.sqrt(x * x + z * z)
horizontal(position) == Sqrt(position.x * position.x + position.z * position.z)

\* the distance in the horizontal plane from a point to a triple
distanceTo(position, target) ==
  Sqrt((position.x - target[1]) * (position.x - target[1])
       + (position.z - target[3]) * (position.z - target[3]))

\* the radial constraint, distance being the distance from the origin
radial(position, radius, distance) ==
  IF distance > radius
  THEN [position EXCEPT !.x = RoundDiv(@ * radius, distance),
                        !.z = RoundDiv(@ * radius, distance)]
  ELSE position

\* Math.max(floor, Math.min(ceiling, y))
clampY(position, boundaries) ==
  [position EXCEPT !.y = Max(boundaries.floor, Min(boundaries.ceiling, @))]

applyExplorerBoundaries(position, boundaries) ==
  clampY(radial(position, boundaries.radius, horizontal(position)), boundaries)

\* the stage barrier, originDistance being the distance from the origin
stageBarrier(position, barrier, originDistance) ==
  IF barrier > 0 /\ originDistance < barrier
  THEN [position EXCEPT !.x = RoundDiv(@ * barrier, Max(originDistance, 10)),
                        !.z = RoundDiv(@ * barrier, Max(originDistance, 10))]
  ELSE position

afterStage(position, boundaries) ==
  stageBarrier(position, boundaries.stage_barrier, horizontal(position))

applySoftBoundaries(position, boundaries) ==
  afterStage(applyExplorerBoundaries(position, boundaries), boundaries)

RECURSIVE nearestFrom(_, _, _, _)
\* the loop of findNearestSource from source k on, nearest being the place of
\* the nearest so far
nearestFrom(position, sources, k, nearest) ==
  IF k > Len(sources) THEN nearest
  ELSE nearestFrom(position, sources, k + 1,
                   IF k = 1 \/ distanceTo(position, sourcePos(sources[k]))
                                 < distanceTo(position, sourcePos(sources[nearest]))
                   THEN k ELSE nearest)

findNearestSource(position, sources) ==
  IF sources = <<>> THEN <<0, 0, 0>>
  ELSE sourcePos(sources[nearestFrom(position, sources, 1, 1)])

\* Math.min((distanceToTarget - comfortZone) * pull_strength, max_pull)
pullForce(preset, distanceToTarget) ==
  Min(scaleBy(distanceToTarget - preset.comfort_zone, preset.pull_strength),
      preset.max_pull)

\* the pull of the given force toward the target at the given distance
pulled(position, target, distanceToTarget, force) ==
  [position EXCEPT !.x = @ + RoundDiv((target[1] - position.x) * force, distanceToTarget),
                   !.z = @ + RoundDiv((target[3] - position.z) * force, distanceToTarget)]

pullTo(position, preset, target, distanceToTarget) ==
  IF distanceToTarget > preset.comfort_zone
  THEN pulled(position, target, distanceToTarget, pullForce(preset, distanceToTarget))
  ELSE position

pullTarget(position, preset, sources) ==
  IF sources # <<>> THEN findNearestSource(position, sources)
  ELSE preset.home_position

pullToward(position, preset, target) ==
  pullTo(position, preset, target, distanceTo(position, target))

elasticPull(position, preset, sources) ==
  IF preset.pull_strength > 0
  THEN pullToward(position, preset, pullTarget(position, preset, sources))
  ELSE position

applyElasticConstraints(position, preset, sources) ==
  elasticPull(applySoftBoundaries(position, preset), preset, sources)

\* the push away from a source at the given distance, to the barrier distance
pushedFrom(position, source, barrierRadius, distanceToSource) ==
  IF distanceToSource < barrierRadius /\ distanceToSource > 0
  THEN [position EXCEPT
          !.x = source[1] + RoundDiv((position.x - source[1]) * barrierRadius,
                                     distanceToSource),
          !.z = source[3] + RoundDiv((position.z - source[3]) * barrierRadius,
                                     distanceToSource)]
  ELSE position

RECURSIVE pushAll(_, _, _, _)
\* the collision loop of applyVenueConstraints from source k on
pushAll(position, sources, k, barrierRadius) ==
  IF k > Len(sources) THEN position
  ELSE pushAll(pushedFrom(position, sourcePos(sources[k]), barrierRadius,
                          distanceTo(position, sourcePos(sources[k]))),
               sources, k + 1, barrierRadius)

applyVenueConstraints(position, preset, sources) ==
  IF preset.source_barriers /\ sources # <<>>
  THEN pushAll(applySoftBoundaries(position, preset), sources, 1,
               preset.barrier_radius)
  ELSE applySoftBoundaries(position, preset)

applyConstraints(newPosition, preset, sources) ==
  CASE preset.constraints = "explorer_freedom" ->
         applyExplorerBoundaries(newPosition, preset)
    [] preset.constraints = "elastic_return" ->
         applyElasticConstraints(newPosition, preset, sources)
    [] preset.constraints = "venue_with_source_barriers" ->
         applyVenueConstraints(newPosition, preset, sources)
    [] OTHER -> applySoftBoundaries(newPosition, preset)

\* the different speeds of applyAsymmetricMovement for different directions
directional(processed) ==
  [x |-> IF processed.x # 0 THEN scaleBy(processed.x, 110) ELSE processed.x,
   y |-> IF processed.y > 0 THEN scaleBy(processed.y, 70)
         ELSE IF processed.y < 0 THEN scaleBy(processed.y, 100) ELSE processed.y,
   z |-> IF processed.z > 0 THEN scaleBy(processed.z, 140)
         ELSE IF processed.z < 0 THEN scaleBy(processed.z, 60) ELSE processed.z]

\* the sign of the dot product with the direction to the nearest source
towardTarget(inputVector, currentPosition, nearestSource) ==
  /\ distanceTo(currentPosition, nearestSource) # 0
  /\ inputVector.x * (nearestSource[1] - currentPosition.x)
       + inputVector.z * (nearestSource[3] - currentPosition.z) > 0

isMovingTowardSources(inputVector, currentPosition, sources) ==
  /\ sources # <<>>
  /\ towardTarget(inputVector, currentPosition,
                  findNearestSource(currentPosition, sources))

\* approach_boost or retreat_penalty
approach(processed, isApproaching) ==
  [processed EXCEPT
     !.x = scaleBy(@, IF isApproaching THEN 160 ELSE 70),
     !.z = scaleBy(@, IF isApproaching THEN 160 ELSE 70)]

applyAsymmetricMovement(inputVector, currentPosition, sources) ==
  IF sources # <<>>
  THEN approach(directional(inputVector),
                isMovingTowardSources(inputVector, currentPosition, sources))
  ELSE directional(inputVector)

\* the speed modifiers of processMovement
withSpeeds(inputVector, preset) ==
  IF preset.speeds
  THEN [x |-> scaleBy(inputVector.x, preset.horizontal_speed),
        y |-> scaleBy(inputVector.y, preset.vertical_speed),
        z |-> scaleBy(inputVector.z, preset.horizontal_speed)]
  ELSE inputVector

biased(processedVector, preset, currentPosition, sources) ==
  IF preset.constraints = "directional_bias"
  THEN applyAsymmetricMovement(processedVector, currentPosition, sources)
  ELSE processedVector

plus(position, vector) ==
  [x |-> position.x + vector.x, y |-> position.y + vector.y,
   z |-> position.z + vector.z]

minus(position, other) ==
  [x |-> position.x - other.x, y |-> position.y - other.y,
   z |-> position.z - other.z]

\* processMovement(inputVector, currentPosition, audioSources) under the preset
processMovement(preset, inputVector, currentPosition, sources) ==
  minus(applyConstraints(
          plus(currentPosition,
               biased(withSpeeds(inputVector, preset), preset, currentPosition,
                      sources)),
          preset, sources),
        currentPosition)

\* the movement the engine applies: as asked if it has no movement presets
processedMovement(presetName, rawMovement, currentPosition, sources) ==
  IF presetName = "none" THEN rawMovement
  ELSE processMovement(presets(presetName), rawMovement, currentPosition, sources)

\* resetToHome()
resetToHome(preset) ==
  [x |-> preset.home_position[1], y |-> preset.home_position[2],
   z |-> preset.home_position[3]]

\* the movement of moveListener in world coordinates, the azimuth being q
\* quarter turns
worldMovement(dx, dy, dz, q) ==
  [x |-> scaleBy(dx * Cos(q) - dz * Sin(q), 17),
   y |-> scaleBy(dy, 17),
   z |-> scaleBy(dx * Sin(q) + dz * Cos(q), 17)]

\* listenerPosition after moveListener(dx, dy, dz)
moveListener(presetName, position, q, sources, dx, dy, dz) ==
  plus(position,
       processedMovement(presetName, worldMovement(dx, dy, dz, q), position, sources))

\* listenerPosition after moveListenerAbsolute(dx, dy, dz)
moveListenerAbsolute(presetName, position, sources, dx, dy, dz) ==
  plus(position,
       processedMovement(presetName, worldMovement(dx, dy, dz, 0), position, sources))

\* listenerPosition after setListenerPosition(x, y, z)
setListenerPosition(presetName, position, sources, target) ==
  IF presetName = "none" THEN target
  ELSE plus(position,
            processMovement(presets(presetName), minus(target, position), position,
                            sources))

\* the position resetListener moves the listener to
resetPosition(presetName) ==
  IF presetName = "none" THEN [x |-> 0, y |-> 0, z |-> 0]
  ELSE resetToHome(presets(presetName))

(***************************************************************************)
(* SHACDecoder: state of one decoder and of its one decode call (the       *)
(* loader makes a new decoder for every file).                             *)
(***************************************************************************)
VARIABLES
  arrayBuffer,     \* the bytes handed to decode
  fileData,        \* "null", or "view" once decode has wrapped arrayBuffer
  header,          \* this.header
  layerIndex,      \* this.layerIndex
  layers,          \* this.layers: layer id -> layer data
  pc,              \* where the decode call stands
  indexPromise,    \* the promise of buildLayerIndex: "none", "resolved", "rejected"
  layerPromises,   \* the settled promises of readLayerOptimized, in index order
  readPromise,     \* the promise of readLayersOptimized
  result,          \* <<>>, or <<r>> once decode has returned r to its caller
  error,           \* the reason decode has thrown, or of the pending rejection
  bytesRead        \* history: the offsets of arrayBuffer read so far

decVars ==
  <<arrayBuffer, fileData, header, layerIndex, layers, pc, indexPromise,
    layerPromises, readPromise, result, error, bytesRead>>

VARIABLES
  rotationCache,   \* this.rotationCache: key -> matrix
  shCache,         \* this.shCache: key -> coefficients
  heap,            \* the Float32Arrays of channel sets: buffer -> samples
  audioIn,         \* a channel set (its buffers) held by the caller
  rotated,         \* the channel set the last rotateAmbisonics returned
  rotArgs,         \* history: the arguments of the last rotateAmbisonics
  rotCalls,        \* history: the calls of rotateAmbisonics so far
  shLast,          \* the last spherical-harmonic call and what it gave
  shCalls,         \* history: the spherical-harmonic calls so far
  rotLookup,       \* the last direct getCachedRotationMatrix call and its matrix
  rotLookups       \* history: the direct getCachedRotationMatrix calls so far

cacheVars == <<rotationCache, shCache>>

rotVars == <<heap, audioIn, rotated, rotArgs, rotCalls>>

shVars == <<shLast, shCalls>>

lookVars == <<rotLookup, rotLookups>>

VARIABLES
  audioBufferPool, \* the global pool: its pool, inUse and stats
  outstanding,     \* history: the buffers acquire returned and nobody released since
  poolLast,        \* history: the last call on the pool, or write of a holder
  poolCalls,       \* history: the calls on the pool and writes so far
  audioContext,    \* the engine's this.audioContext: "null" or "context"
  engineLayers,    \* the engine's this.layers, in the order of the map
  isPlaying,       \* this.isPlaying
  startTime,       \* this.startTime
  pauseTime,       \* this.pauseTime
  currentTime,     \* audioContext.currentTime, the clock of the context
  shacData,        \* the decoded file the player hands to loadSHAC
  audioSources,    \* this.audioSources
  engineLast,      \* history: the last call on the engine and how it ended
  engineCalls      \* history: the calls on the engine so far

poolVars == <<audioBufferPool, outstanding, poolLast, poolCalls>>

engVars ==
  <<audioContext, engineLayers, isPlaying, startTime, pauseTime, currentTime,
    shacData, audioSources, engineLast, engineCalls>>

VARIABLES
  listenerPosition,  \* this.listenerPosition, in hundredths
  listenerRotation,  \* this.listenerRotation, in degrees
  activePresetName,  \* movementPresets.activePresetName, "none" without presets
  listenerLast,      \* history: the last call on the listener and how it ended
  listenerCalls      \* history: the calls on the listener so far

lisVars ==
  <<listenerPosition, listenerRotation, activePresetName, listenerLast,
    listenerCalls>>

VARIABLES
  cacheStorage,    \* caches: the caches of the origin by name, each the URLs it holds
  workerState,     \* the service worker: "parsed", "installing", "installed",
                   \* "activating", "activated" or "redundant"
  toDelete,        \* activate: the caches whose deletion is still pending
  inFlight,        \* the requests respondWith has not yet answered, or whose
                   \* response is still to be cached
  answered,        \* history: how each fetch event was answered
  keysSeen,        \* history: the cache names the last activate found
  activations      \* history: the activate events so far

swVars ==
  <<cacheStorage, workerState, toDelete, inFlight, answered, keysSeen, activations>>

VARIABLES
  currentSHAC,       \* player.currentSHAC: <<>> while null, or <<shacData>>
  controlsIsPlaying, \* controls.isPlaying
  updateInterval,    \* whether player.updateInterval holds a running interval
  duration,          \* audioEngine.duration, in ticks of the clock; 0 while unset
  loads,             \* the loads under way: for each its file and how far it is
  playerLast,        \* history: the last handler of the player that ran
  playerCalls        \* history: the presses and timer ticks so far

appVars ==
  <<currentSHAC, controlsIsPlaying, updateInterval, duration, loads, playerLast,
    playerCalls>>

\* the state of the player around the engine's audio
restVars == <<lisVars, swVars, appVars>>

\* new Map()
EmptyMap == [id \in {} |-> JNull]

\* the data of a layer read: { metadata, audioData, samplesPerChannel }
LayerData(r) ==
  [metadata |-> r.metadata, audioData |-> r.audioData,
   samplesPerChannel |-> r.samplesPerChannel]

\* results.forEach(result => this.layers.set(result.id, result.data)) on an
\* empty map: a later result replaces an earlier one of the same id
storeResults(results) ==
  [id \in {results[i].id : i \in DOMAIN results} |->
     LayerData(results[CHOOSE i \in DOMAIN results :
                         /\ results[i].id = id
                         /\ \A j \in DOMAIN results : results[j].id = id => j <= i])]

\* each result stored as its promise settles, up to the first rejection
layersStoredAsRead(promises) ==
  storeResults(SubSeq(promises, 1,
                      Cardinality({i \in DOMAIN promises :
                                     \A j \in 1..i : promises[j].ok})))

\* Promise.all(promises): fulfilled with every result, or rejected as soon as
\* one promise is; the map is then not touched
layersAfterAll(promises) ==
  IF \A i \in DOMAIN promises : promises[i].ok
  THEN storeResults(promises)
  ELSE EmptyMap

\* the reason Promise.all rejects with: that of the first rejected promise
firstRejection(promises) ==
  promises[CHOOSE i \in DOMAIN promises :
             ~ promises[i].ok /\ \A j \in 1..(i - 1) : promises[j].ok].err

\* Array.from(this.layers.keys()): the ids in the order of their first insertion
RECURSIVE layerNamesFrom(_, _)
layerNamesFrom(promises, i) ==
  IF i > Len(promises) THEN <<>>
  ELSE (IF \A j \in 1..(i - 1) : promises[j].id # promises[i].id
        THEN <<promises[i].id>> ELSE <<>>) \o layerNamesFrom(promises, i + 1)

layerNamesOf(promises) == layerNamesFrom(promises, 1)

\* the constructor's reset(): a decoder that has not decoded yet
DecFresh ==
  /\ fileData = "null"
  /\ header = NullHeader
  /\ layerIndex = <<>>
  /\ layers = EmptyMap
  /\ pc = "idle"
  /\ indexPromise = "none"
  /\ layerPromises = <<>>
  /\ readPromise = "none"
  /\ result = <<>>
  /\ error = ""
  /\ bytesRead = {}
  /\ rotationCache = EmptyMap
  /\ shCache = EmptyMap

\* the pool as the script creates it
PoolFresh ==
  /\ audioBufferPool = newAudioBufferPool
  /\ outstanding = {}
  /\ poolLast = <<>>
  /\ poolCalls = 0

\* the listener of a new SpatialAudioEngine, before init()
ListenerFresh ==
  /\ listenerPosition = [x |-> 0, y |-> 0, z |-> 0]
  /\ listenerRotation = [azimuth |-> 0, elevation |-> 0, roll |-> 0]
  /\ activePresetName = "none"
  /\ listenerLast = <<>>
  /\ listenerCalls = 0

\* no service worker registered, no cache
WorkerFresh ==
  /\ cacheStorage = <<>>
  /\ workerState = "parsed"
  /\ toDelete = {}
  /\ inFlight = <<>>
  /\ answered = {}
  /\ keysSeen = {}
  /\ activations = 0

\* new SHACPlayer() after init(): no file, nothing playing
PlayerFresh ==
  /\ currentSHAC = <<>>
  /\ controlsIsPlaying = FALSE
  /\ updateInterval = FALSE
  /\ duration = 0
  /\ loads = <<>>
  /\ playerLast = <<>>
  /\ playerCalls = 0

RestFresh == ListenerFresh /\ WorkerFresh /\ PlayerFresh

\* new SpatialAudioEngine()
EngineFresh ==
  /\ audioContext = "null"
  /\ engineLayers = <<>>
  /\ isPlaying = FALSE
  /\ startTime = 0
  /\ pauseTime = 0
  /\ currentTime = 0
  /\ shacData = <<>>
  /\ audioSources = <<>>
  /\ engineLast = <<>>
  /\ engineCalls = 0

\* no channel set rotated, no spherical harmonics asked for
MathIdle ==
  /\ heap = <<>>
  /\ audioIn = <<>>
  /\ rotated = <<>>
  /\ rotArgs = <<>>
  /\ rotCalls = 0
  /\ shLast = <<>>
  /\ shCalls = 0
  /\ rotLookup = <<>>
  /\ rotLookups = 0
  /\ PoolFresh
  /\ RestFresh
  /\ EngineFresh

\* a decoder about to be handed a file
DecInit ==
  /\ arrayBuffer \in InputFiles
  /\ DecFresh
  /\ MathIdle

\* decode after a readHeader that threw
headerThrew(hr) ==
  /\ header' = hr.header
  /\ layerIndex' = <<>>
  /\ indexPromise' = "none"
  /\ pc' = "thrown"
  /\ error' = hr.err
  /\ bytesRead' = hr.reads

\* decode after a readHeader that returned: the body of buildLayerIndex has
\* run, and decode awaits its promise
headerRead(hr, ix) ==
  /\ header' = hr.header
  /\ layerIndex' = ix.index
  /\ indexPromise' = IF ix.ok THEN "resolved" ELSE "rejected"
  /\ pc' = "awaitIndex"
  /\ error' = ix.err
  /\ bytesRead' = hr.reads \cup ix.reads

afterHeader(hr) ==
  IF hr.ok THEN headerRead(hr, buildLayerIndex(arrayBuffer, hr.header))
  ELSE headerThrew(hr)

\* decode(arrayBuffer) up to its first await: reset, readHeader, and the
\* synchronous body of buildLayerIndex
DecodeCall ==
  /\ pc = "idle"
  /\ fileData' = "view"
  /\ layers' = EmptyMap
  /\ rotationCache' = EmptyMap
  /\ shCache' = EmptyMap
  /\ afterHeader(readHeader(arrayBuffer))
  /\ UNCHANGED <<arrayBuffer, layerPromises, readPromise, result, rotVars, shVars, lookVars, poolVars, engVars, restVars>>

\* decode resumes after await buildLayerIndex(): it throws, or it enters
\* readLayersOptimized, which starts every layer's read and awaits them all
ResumeAfterIndex ==
  /\ pc = "awaitIndex"
  /\ IF indexPromise = "rejected"
     THEN /\ pc' = "thrown"
          /\ UNCHANGED <<layerPromises, bytesRead>>
     ELSE /\ pc' = "awaitAll"
          /\ layerPromises' =
               [i \in DOMAIN layerIndex |->
                  readLayerOptimized(arrayBuffer, header, layerIndex[i])]
          /\ bytesRead' = bytesRead \cup
               UNION {layerPromises'[i].reads : i \in DOMAIN layerIndex}
  /\ UNCHANGED <<arrayBuffer, fileData, header, layerIndex, layers, indexPromise,
                 readPromise, result, error, cacheVars, rotVars, shVars, lookVars, poolVars, engVars, restVars>>

\* readLayersOptimized resumes after await Promise.all(promises)
ResumeAfterAll ==
  /\ pc = "awaitAll"
  /\ pc' = "awaitRead"
  /\ layers' = layersAfterAll(layerPromises)
  /\ IF \A i \in DOMAIN layerPromises : layerPromises[i].ok
     THEN readPromise' = "resolved" /\ error' = error
     ELSE readPromise' = "rejected" /\ error' = firstRejection(layerPromises)
  /\ UNCHANGED <<arrayBuffer, fileData, header, layerIndex, indexPromise,
                 layerPromises, result, bytesRead, cacheVars, rotVars, shVars, lookVars, poolVars, engVars, restVars>>

\* decode resumes after await readLayersOptimized(): it returns its result or
\* rethrows
DecodeReturn ==
  /\ pc = "awaitRead"
  /\ IF readPromise = "resolved"
     THEN /\ pc' = "returned"
          /\ result' = <<[header |-> header, layers |-> layers,
                          layerNames |-> layerNamesOf(layerPromises),
                          layerIndex |-> layerIndex]>>
     ELSE /\ pc' = "thrown"
          /\ result' = result
  /\ UNCHANGED <<arrayBuffer, fileData, header, layerIndex, layers, indexPromise,
                 layerPromises, readPromise, error, bytesRead, cacheVars, rotVars,
                 shVars, lookVars, poolVars, engVars, restVars>>

(***************************************************************************)
(* rotateAmbisonics on the channel sets a caller holds.                    *)
(***************************************************************************)
\* the ambisonic orders of the channel sets rotated
RotOrders == {0, 1, 2}

\* yaw, pitch and roll, in quarter turns
AngleTriples ==
  {<<0, 0, 0>>, <<0, 0, 1>>, <<1, 0, 0>>, <<2, 1, 0>>, <<3, 2, 1>>, <<1, 1, 2>>}

SampleSeeds == {0, 1, 2}

\* sample s of channel ch of the channel set of a seed
SampleOf(seed, ch, sm) == ((seed + 3 * ch + 5 * sm) % 5) - 2

\* a decoder not decoding, and a caller holding one channel set
RotInit ==
  /\ arrayBuffer = <<>>
  /\ DecFresh
  /\ \E order \in RotOrders : \E numSamples \in 0..MaxSamples : \E seed \in SampleSeeds :
       /\ heap = [ch \in 1..((order + 1) * (order + 1)) |->
                    [sm \in 1..numSamples |-> SampleOf(seed, ch, sm)]]
       /\ audioIn = [ch \in 1..((order + 1) * (order + 1)) |-> ch]
  /\ rotated = <<>>
  /\ rotArgs = <<>>
  /\ rotCalls = 0
  /\ shLast = <<>>
  /\ shCalls = 0
  /\ rotLookup = <<>>
  /\ rotLookups = 0
  /\ PoolFresh
  /\ RestFresh
  /\ EngineFresh

\* the samples of a channel set
channelsOf(heapNow, audioData) == [j \in DOMAIN audioData |-> heapNow[audioData[j]]]

\* rotateAmbisonics(audioData, yaw, pitch, roll), order being
\* Math.sqrt(audioData.length) - 1
rotateAmbisonics(audioData, order, yaw, pitch, roll) ==
  /\ rotationCache' = getCachedRotationMatrix(rotationCache, order, yaw, pitch, roll)
  /\ rotated' = rotatedData(audioData, Len(heap))
  /\ heap' = heapAfter(heap, rotated',
                       rotatedSamples(rotationCache'[rotationCacheKey(order, yaw, pitch, roll)],
                                      channelsOf(heap, audioData),
                                      Len(heap[audioData[1]])))
  /\ rotArgs' = <<[audioData |-> audioData, yaw |-> yaw, pitch |-> pitch, roll |-> roll]>>

\* the caller rotates the set it holds, or the set the last call returned
RotateAmbisonics ==
  /\ rotCalls < MaxRotCalls
  /\ rotCalls' = rotCalls + 1
  /\ \E audioData \in {audioIn, rotated} \ {<<>>} : \E a \in AngleTriples :
       rotateAmbisonics(audioData, SqrtExact(Len(audioData)) - 1,
                        a[1] * QuarterTurn, a[2] * QuarterTurn, a[3] * QuarterTurn)
  /\ UNCHANGED <<decVars, shCache, audioIn, shVars, lookVars, poolVars, engVars, restVars>>

(***************************************************************************)
(* The spherical-harmonic routines, asked for directions.                  *)
(***************************************************************************)
\* azimuth and elevation, in quarter turns
Directions == {<<0, 0>>, <<1, 0>>, <<2, 1>>, <<3, 0 - 1>>}

SHInit ==
  /\ arrayBuffer = <<>>
  /\ DecFresh
  /\ MathIdle

shCall(routine, order, azimuth, elevation, r) ==
  <<[routine |-> routine, order |-> order, azimuth |-> azimuth,
     elevation |-> elevation, ok |-> r.ok, err |-> r.err, coeffs |-> r.coeffs]>>

vectorizedCall(order, azimuth, elevation, r) ==
  /\ shLast' = shCall("decoder", order, azimuth, elevation, r)
  /\ shCache' = shCacheAfter(shCache, shCacheKey(order, azimuth, elevation), r)

\* a call of the decoder's computeSphericalHarmonicsVectorized
VectorizedCall ==
  /\ shCalls < MaxSHCalls
  /\ shCalls' = shCalls + 1
  /\ \E order \in 0..MaxSHOrder : \E d \in Directions :
       vectorizedCall(order, d[1], d[2],
                      computeSphericalHarmonicsVectorized(shCache, order, d[1], d[2]))
  /\ UNCHANGED <<decVars, rotationCache, rotVars, lookVars, poolVars, engVars, restVars>>

\* a call of the engine's computeSphericalHarmonics for the channel count of
\* an order
EngineCall ==
  /\ shCalls < MaxSHCalls
  /\ shCalls' = shCalls + 1
  /\ \E order \in 0..MaxSHOrder : \E d \in Directions :
       shLast' = shCall("engine", order, d[1], d[2],
                        [ok |-> TRUE, err |-> "",
                         coeffs |-> computeSphericalHarmonics(
                                      d[1], d[2], (order + 1) * (order + 1))])
  /\ UNCHANGED <<decVars, cacheVars, rotVars, lookVars, poolVars, engVars, restVars>>

(***************************************************************************)
(* getCachedRotationMatrix, called by itself.                              *)
(***************************************************************************)
\* yaw, pitch and roll, in steps: quarter turns, and angles a step off them
LookupAngles ==
  {<<0, 0, 0>>, <<1, 0, 0>>, <<QuarterTurn, 0, 0>>, <<QuarterTurn + 1, 0, 0>>,
   <<0, QuarterTurn, 0>>, <<0, QuarterTurn - 1, QuarterTurn>>}

LookupInit ==
  /\ arrayBuffer = <<>>
  /\ DecFresh
  /\ MathIdle

lookupCall(order, yaw, pitch, roll) ==
  /\ rotationCache' = getCachedRotationMatrix(rotationCache, order, yaw, pitch, roll)
  /\ rotLookup' = <<[order |-> order, yaw |-> yaw, pitch |-> pitch, roll |-> roll,
                     matrix |-> rotationCache'[rotationCacheKey(order, yaw, pitch, roll)]]>>

\* a call of getCachedRotationMatrix(order, yaw, pitch, roll)
GetCachedRotationMatrix ==
  /\ rotLookups < MaxLookups
  /\ rotLookups' = rotLookups + 1
  /\ \E order \in RotOrders : \E a \in LookupAngles :
       lookupCall(order, a[1], a[2], a[3])
  /\ UNCHANGED <<decVars, shCache, rotVars, shVars, poolVars, engVars, restVars>>

(***************************************************************************)
(* The pool, called by holders of buffers.                                 *)
(***************************************************************************)
\* one Float32Array that is not the pool's, holding a sample
PoolInit ==
  /\ arrayBuffer = <<>>
  /\ DecFresh
  /\ heap = <<<<1>>>>
  /\ audioIn = <<>>
  /\ rotated = <<>>
  /\ rotArgs = <<>>
  /\ rotCalls = 0
  /\ shLast = <<>>
  /\ shCalls = 0
  /\ rotLookup = <<>>
  /\ rotLookups = 0
  /\ PoolFresh
  /\ RestFresh
  /\ EngineFresh

poolCall(op, size, buffer, bp) ==
  /\ heap' = bp.heap
  /\ audioBufferPool' = poolOf(bp)
  /\ poolLast' = <<[op |-> op, size |-> size, buffer |-> buffer, threw |-> FALSE]>>

\* acquire throws before it has changed anything
acquireThrew(size) ==
  /\ poolLast' = <<[op |-> "acquire", size |-> size, buffer |-> 0, threw |-> TRUE]>>
  /\ UNCHANGED <<heap, audioBufferPool, outstanding>>

\* audioBufferPool.acquire(size), in a memory with or without room for one
\* more Float32Array
Acquire ==
  /\ poolCalls < MaxPoolCalls
  /\ poolCalls' = poolCalls + 1
  /\ \E size \in 0..MaxBufferLen : \E room \in {0, 1} :
       IF allocationFails(poolIn(heap, audioBufferPool), size, room)
       THEN acquireThrew(size)
       ELSE /\ poolCall("acquire", size, acquired(poolIn(heap, audioBufferPool), size),
                        acquire(poolIn(heap, audioBufferPool), size))
            /\ outstanding' = outstanding \cup {poolLast'[1].buffer}
  /\ UNCHANGED <<decVars, cacheVars, audioIn, rotated, rotArgs, rotCalls, shVars,
                 lookVars, engVars, restVars>>

\* audioBufferPool.release(buffer), for any Float32Array there is
Release ==
  /\ poolCalls < MaxPoolCalls
  /\ poolCalls' = poolCalls + 1
  /\ \E buffer \in DOMAIN heap :
       /\ poolCall("release", Len(heap[buffer]), buffer,
                   release(poolIn(heap, audioBufferPool), buffer))
       /\ outstanding' = outstanding \ {buffer}
  /\ UNCHANGED <<decVars, cacheVars, audioIn, rotated, rotArgs, rotCalls, shVars,
                 lookVars, engVars, restVars>>

\* a holder stores a sample in a buffer it acquired and has not released
HolderWrite ==
  /\ poolCalls < MaxPoolCalls
  /\ poolCalls' = poolCalls + 1
  /\ \E buffer \in outstanding : \E i \in DOMAIN heap[buffer] :
       /\ heap' = [heap EXCEPT ![buffer][i] = 1]
       /\ poolLast' = <<[op |-> "write", size |-> Len(heap[buffer]), buffer |-> buffer,
                         threw |-> FALSE]>>
  /\ UNCHANGED <<decVars, cacheVars, audioIn, rotated, rotArgs, rotCalls, shVars,
                 lookVars, engVars, restVars, audioBufferPool, outstanding>>

(***************************************************************************)
(* createAudioBuffer, called by itself on an engine with or without an     *)
(* audio context.                                                          *)
(***************************************************************************)
\* the channel counts rendered: orders 0 to 3, and counts that are no
\* (order + 1)^2 around them
RenderChannels == {0, 1, 2, 3, 4, 5, 9, 16}

\* audioData of a layer of the decoder: n_channels channels of n_samples
audioDataOf(numChannels, numSamples) ==
  [ch \in 1..numChannels |-> Float32Array(numSamples)]

RenderInit ==
  /\ arrayBuffer = <<>>
  /\ DecFresh
  /\ heap = <<>>
  /\ audioIn = <<>>
  /\ rotated = <<>>
  /\ rotArgs = <<>>
  /\ rotCalls = 0
  /\ shLast = <<>>
  /\ shCalls = 0
  /\ rotLookup = <<>>
  /\ rotLookups = 0
  /\ PoolFresh
  /\ RestFresh
  /\ audioContext \in {"null", "context"}
  /\ engineLayers = <<>>
  /\ isPlaying = FALSE
  /\ startTime = 0
  /\ pauseTime = 0
  /\ currentTime = 0
  /\ shacData = <<>>
  /\ audioSources = <<>>
  /\ engineLast = <<>>
  /\ engineCalls = 0

\* the Float32Arrays the memory has room for when a render begins: none,
\* fewer than the speakers of a layout, as many as any layout needs
Rooms == {0, 10, 20}

renderCall(numChannels, numSamples, room, r) ==
  /\ heap' = r.bp.heap
  /\ audioBufferPool' = poolOf(r.bp)
  /\ engineLast' = <<[op |-> "createAudioBuffer", numChannels |-> numChannels,
                      numSamples |-> numSamples, room |-> room, ok |-> r.ok,
                      err |-> r.err,
                      audioBuffer |-> r.audioBuffer, created |-> r.created]>>

\* a call of createAudioBuffer(audioData, header)
CreateAudioBuffer ==
  /\ engineCalls < MaxRenders
  /\ engineCalls' = engineCalls + 1
  /\ \E numChannels \in RenderChannels : \E numSamples \in 0..MaxRenderLen :
     \E room \in Rooms :
       renderCall(numChannels, numSamples, room,
                  createAudioBuffer(audioContext, poolIn(heap, audioBufferPool),
                                    audioDataOf(numChannels, numSamples), room))
  /\ UNCHANGED <<decVars, cacheVars, audioIn, rotated, rotArgs, rotCalls, shVars,
                 lookVars, outstanding, poolLast, poolCalls, audioContext,
                 engineLayers, isPlaying, startTime, pauseTime, currentTime,
                 shacData, audioSources, restVars>>

(***************************************************************************)
(* The engine of a player that has decoded a file: init() has run, with or *)
(* without an audio context to show for it.                                *)
(***************************************************************************)
LayerNames == <<"first", "second", "third", "fourth">>

\* the layers loaded: channels, metadata.pre_mixed, metadata.source_references
\* and metadata.position
emptyLayer == <<0, FALSE, <<>>, NotGiven>>

monoLayer == <<1, FALSE, <<>>, Given(<<Num(1), Num(2), Num(3)>>)>>

spatialLayer ==
  <<4, FALSE, <<>>, Given(<<NotANumber("Infinity"), NotANumber("string"), Num(2)>>)>>

mixedLayer == <<4, TRUE, <<>>, Given(<<Num(1), Num(0)>>)>>

markedLayer ==
  <<4, TRUE, <<[name |-> "marker", position |-> Given(<<Num(3), Num(0), Num(1)>>)]>>,
    NotGiven>>

LayerInputs == {emptyLayer, monoLayer, spatialLayer, mixedLayer, markedLayer}

layerOf(input, place, numSamples) ==
  [name |-> LayerNames[place], audioData |-> audioDataOf(input[1], numSamples),
   pre_mixed |-> input[2], source_references |-> input[3], position |-> input[4]]

\* the decoded file of the given layers, preMixed as the loader sets it
fileOf(inputs, numSamples) ==
  [preMixed |-> (Len(inputs) = 1 /\ inputs[1][2]),
   n_samples |-> numSamples,
   layers |-> [i \in DOMAIN inputs |-> layerOf(inputs[i], i, numSamples)]]

EngineFiles ==
  {fileOf(inputs, numSamples) :
     inputs \in UNION {[1..n -> LayerInputs] : n \in 1..MaxEngineLayers},
     numSamples \in 0..MaxRenderLen}

EngineInit ==
  /\ arrayBuffer = <<>>
  /\ DecFresh
  /\ heap = <<>>
  /\ audioIn = <<>>
  /\ rotated = <<>>
  /\ rotArgs = <<>>
  /\ rotCalls = 0
  /\ shLast = <<>>
  /\ shCalls = 0
  /\ rotLookup = <<>>
  /\ rotLookups = 0
  /\ PoolFresh
  /\ RestFresh
  /\ audioContext \in {"null", "context"}
  /\ engineLayers = <<>>
  /\ isPlaying = FALSE
  /\ startTime = 0
  /\ pauseTime = 0
  /\ currentTime = 0
  /\ shacData \in EngineFiles
  /\ audioSources = <<>>
  /\ engineLast = <<>>
  /\ engineCalls = 0

\* the engine as the variables have it
engineNow ==
  [audioContext |-> audioContext, layers |-> engineLayers, isPlaying |-> isPlaying,
   startTime |-> startTime, pauseTime |-> pauseTime, audioSources |-> audioSources,
   bp |-> poolIn(heap, audioBufferPool), err |-> ""]

\* new AudioContext() succeeding, as a number
asNumber(available) == IF available THEN 1 ELSE 0

\* a call on the engine that leaves it as e, env being what the call found:
\* the room of the memory, or whether a context could be made (1) or not (0)
engineCall(op, env, e) ==
  /\ engineCalls < MaxEngineCalls
  /\ engineCalls' = engineCalls + 1
  /\ audioContext' = e.audioContext
  /\ engineLayers' = e.layers
  /\ isPlaying' = e.isPlaying
  /\ startTime' = e.startTime
  /\ pauseTime' = e.pauseTime
  /\ audioSources' = e.audioSources
  /\ heap' = e.bp.heap
  /\ audioBufferPool' = poolOf(e.bp)
  /\ engineLast' = <<[op |-> op, env |-> env, ok |-> e.err = "", err |-> e.err]>>
  /\ UNCHANGED <<decVars, cacheVars, audioIn, rotated, rotArgs, rotCalls, shVars,
                 lookVars, outstanding, poolLast, poolCalls, currentTime, shacData,
                 restVars>>

\* loadSHAC(shacData), in a memory with or without room for the render
LoadSHAC ==
  \E room \in {0, 20} :
    engineCall("loadSHAC", room, loadSHAC(engineNow, currentTime, shacData, room))

\* play(), new AudioContext() succeeding or not if the engine has none yet
Play ==
  \E available \in BOOLEAN :
    engineCall("play", asNumber(available), play(engineNow, currentTime, available))

Pause == engineCall("pause", 0, pause(engineNow, currentTime))

Replay ==
  \E available \in BOOLEAN :
    engineCall("replay", asNumber(available), replay(engineNow, currentTime, available))

Clear == engineCall("clear", 0, clear(engineNow, currentTime))

\* the clock of the audio context advances
Tick ==
  /\ audioContext = "context"
  /\ currentTime < MaxClock
  /\ currentTime' = currentTime + 1
  /\ UNCHANGED <<decVars, cacheVars, rotVars, shVars, lookVars, poolVars,
                 audioContext, engineLayers, isPlaying, startTime, pauseTime,
                 shacData, audioSources, engineLast, engineCalls, restVars>>

\* all that the calls on the listener leave alone
engineRest ==
  <<decVars, cacheVars, rotVars, shVars, lookVars, poolVars, audioContext,
    engineLayers, isPlaying, startTime, pauseTime, currentTime, shacData,
    audioSources>>

(***************************************************************************)
(* The listener of an engine after init(), with or without an audio        *)
(* context and with or without movement presets (Explorer if it has them), *)
(* among audio sources at whole positions.                                 *)
(***************************************************************************)
\* an audio source at x, y, z squares
sourceAt(x, y, z) ==
  [name |-> "source", position |-> Given(<<Num(100 * x), Num(100 * y), Num(100 * z)>>),
   isReference |-> FALSE]

\* an audio source at x, z hundredths on the floor
sourceAtHundredths(x, z) ==
  [name |-> "source", position |-> Given(<<Num(x), Num(0), Num(z)>>),
   isReference |-> FALSE]

ListenerSources ==
  {<<>>, <<sourceAt(0, 0, 0)>>, <<sourceAtHundredths(2950, 0)>>,
   <<sourceAt(60, 0, 0)>>, <<sourceAt(0, 0, 0), sourceAt(1, 0, 0)>>}

\* the movements asked of the listener, in hundredths
Movements == {<<100, 0, 0>>, <<0, 100, 0>>, <<0, 0, -100>>}

\* the positions the listener is sent to, in hundredths
Targets ==
  {[x |-> 4000, y |-> 0, z |-> 0], [x |-> 0, y |-> 2000, z |-> 0],
   [x |-> 50, y |-> 0, z |-> 0]}

ListenerInit ==
  /\ arrayBuffer = <<>>
  /\ DecFresh
  /\ heap = <<>>
  /\ audioIn = <<>>
  /\ rotated = <<>>
  /\ rotArgs = <<>>
  /\ rotCalls = 0
  /\ shLast = <<>>
  /\ shCalls = 0
  /\ rotLookup = <<>>
  /\ rotLookups = 0
  /\ audioBufferPool = newAudioBufferPool
  /\ outstanding = {}
  /\ poolLast = <<>>
  /\ poolCalls = 0
  /\ audioContext \in {"null", "context"}
  /\ engineLayers = <<>>
  /\ isPlaying = FALSE
  /\ startTime = 0
  /\ pauseTime = 0
  /\ currentTime = 0
  /\ shacData = <<>>
  /\ audioSources \in ListenerSources
  /\ engineLast = <<>>
  /\ engineCalls = 0
  /\ listenerPosition = [x |-> 0, y |-> 0, z |-> 0]
  /\ listenerRotation = [azimuth |-> 0, elevation |-> 0, roll |-> 0]
  /\ activePresetName \in {"none", "explorer"}
  /\ listenerLast = <<>>
  /\ listenerCalls = 0
  /\ WorkerFresh
  /\ PlayerFresh

\* a call on the listener: updateListenerPosition and updateListenerRotation
\* assign their fields and then throw a TypeError at this.audioContext.listener
\* if the engine has no audio context
listenerCall(op) ==
  /\ listenerCalls < MaxListenerCalls
  /\ listenerCalls' = listenerCalls + 1
  /\ listenerLast' = <<[op |-> op, ok |-> audioContext # "null"]>>

\* the azimuth in quarter turns
quarterTurns == listenerRotation.azimuth \div 90

MoveListener ==
  \E d \in Movements :
    /\ listenerCall("moveListener")
    /\ listenerPosition' =
         moveListener(activePresetName, listenerPosition, quarterTurns,
                      audioSources, d[1], d[2], d[3])
    /\ UNCHANGED <<engineRest, engineLast, engineCalls, listenerRotation,
                   activePresetName, swVars, appVars>>

MoveListenerAbsolute ==
  \E d \in Movements :
    /\ listenerCall("moveListenerAbsolute")
    /\ listenerPosition' =
         moveListenerAbsolute(activePresetName, listenerPosition, audioSources,
                              d[1], d[2], d[3])
    /\ UNCHANGED <<engineRest, engineLast, engineCalls, listenerRotation,
                   activePresetName, swVars, appVars>>

SetListenerPosition ==
  \E target \in Targets :
    /\ listenerCall("setListenerPosition")
    /\ listenerPosition' =
         setListenerPosition(activePresetName, listenerPosition, audioSources, target)
    /\ UNCHANGED <<engineRest, engineLast, engineCalls, listenerRotation,
                   activePresetName, swVars, appVars>>

\* rotateListener(dAzimuth, dElevation) turning the listener a quarter turn
\* and raising its view by 17 degrees
RotateListener ==
  /\ listenerCall("rotateListener")
  /\ listenerRotation' = [azimuth |-> listenerRotation.azimuth + 90,
                          elevation |-> listenerRotation.elevation + 17,
                          roll |-> 0]
  /\ UNCHANGED <<engineRest, engineLast, engineCalls, listenerPosition,
                 activePresetName, swVars, appVars>>

\* resetListener(): the rotation is reset only if updateListenerPosition
\* has returned
ResetListener ==
  /\ listenerCall("resetListener")
  /\ listenerPosition' = resetPosition(activePresetName)
  /\ listenerRotation' =
       IF audioContext = "null" THEN listenerRotation
       ELSE [azimuth |-> 0, elevation |-> 0, roll |-> 0]
  /\ UNCHANGED <<engineRest, engineLast, engineCalls, activePresetName, swVars, appVars>>

\* setPreset(presetName), from the dropdown
SetPreset ==
  \E presetName \in PresetNames :
    /\ activePresetName # "none"
    /\ listenerCalls < MaxListenerCalls
    /\ listenerCalls' = listenerCalls + 1
    /\ activePresetName' = presetName
    /\ listenerLast' = <<[op |-> "setPreset", ok |-> TRUE]>>
    /\ UNCHANGED <<engineRest, engineLast, engineCalls, listenerPosition,
                   listenerRotation, swVars, appVars>>

vars == <<decVars, cacheVars, rotVars, shVars, lookVars, poolVars, engVars, restVars>>

Init == DecInit

Next ==
  \/ DecodeCall
  \/ ResumeAfterIndex
  \/ ResumeAfterAll
  \/ DecodeReturn

Spec == Init /\ [][Next]_vars

RotNext == RotateAmbisonics

SpecRotate == RotInit /\ [][RotNext]_vars

SHNext ==
  \/ VectorizedCall
  \/ EngineCall

SpecSH == SHInit /\ [][SHNext]_vars

LookupNext == GetCachedRotationMatrix

PoolNext ==
  \/ Acquire
  \/ Release
  \/ HolderWrite

SpecPool == PoolInit /\ [][PoolNext]_vars

EngineNext ==
  \/ LoadSHAC
  \/ Play
  \/ Pause
  \/ Replay
  \/ Clear
  \/ Tick

SpecEngine == EngineInit /\ [][EngineNext]_vars

(***************************************************************************)
(* The service worker (sw.js).  The caches of the origin are a function    *)
(* from the cache names to whether the cache exists and the URLs it holds. *)
(* A request is a method and a URL; a request in flight also has the stage *)
(* of its handling.                                                        *)
(***************************************************************************)
CACHE_NAME == "shac-player-v3"

urlsToCache ==
  {"/", "/index.html", "/styles.css", "/js/app.js", "/js/controls.js",
   "/js/file-loader.js", "/js/movement-presets.js", "/js/pako.min.js",
   "/js/shac-decoder.js", "/js/spatial-audio.js", "/js/visualizer.js",
   "/js/zus-loader.js", "/icon-192.png", "/icon-512.png", "/manifest.json"}

\* the caches an origin may hold: the current one and those of older workers
CacheNames == {CACHE_NAME, "shac-player-v2", "shac-player-v1"}

\* the URLs asked of the worker: two precached, one of the origin that is not
\* precached, one of another origin
RequestURLs == {"/", "/js/app.js", "/demo.shac", "https://elsewhere.example/lib.js"}

Methods == {"GET", "POST"}

sameOrigin(url) == url # "https://elsewhere.example/lib.js"

NoCache == [exists |-> FALSE, urls |-> {}]

\* caches.open(name), which makes the cache if there is none
cachesOpen(storage, name) ==
  IF storage[name].exists THEN storage
  ELSE [storage EXCEPT ![name] = [exists |-> TRUE, urls |-> {}]]

\* cache.addAll(urls) or cache.put(request, response) on the cache of the name
cacheAdd(storage, name, urls) ==
  [storage EXCEPT ![name].urls = @ \cup urls]

\* caches.keys()
cachesKeys(storage) == {name \in DOMAIN storage : storage[name].exists}

\* caches.delete(name)
cachesDelete(storage, name) == [storage EXCEPT ![name] = NoCache]

\* caches.match(request): a response held by any cache
cachesMatch(storage, url) ==
  \E name \in DOMAIN storage : storage[name].exists /\ url \in storage[name].urls

\* the caches activate deletes
isAnyCache(cacheName) == TRUE

isOldCache(cacheName) == cacheName # CACHE_NAME

\* the caches an origin holds when the worker is registered
StoragesBefore ==
  {[name \in CacheNames |->
      IF name \in old THEN [exists |-> TRUE, urls |-> held] ELSE NoCache] :
     old \in SUBSET CacheNames, held \in {{}, {"/"}}}

WorkerInit ==
  /\ arrayBuffer = <<>>
  /\ DecFresh
  /\ heap = <<>>
  /\ audioIn = <<>>
  /\ rotated = <<>>
  /\ rotArgs = <<>>
  /\ rotCalls = 0
  /\ shLast = <<>>
  /\ shCalls = 0
  /\ rotLookup = <<>>
  /\ rotLookups = 0
  /\ PoolFresh
  /\ EngineFresh
  /\ ListenerFresh
  /\ cacheStorage \in StoragesBefore
  /\ workerState = "parsed"
  /\ toDelete = {}
  /\ inFlight = <<>>
  /\ answered = {}
  /\ keysSeen = {}
  /\ activations = 0
  /\ PlayerFresh

\* all that the service worker leaves alone
workerRest ==
  <<decVars, cacheVars, rotVars, shVars, lookVars, poolVars, engVars, lisVars,
    appVars>>

\* the install event: caches.open(CACHE_NAME)
InstallOpen ==
  /\ workerState = "parsed"
  /\ workerState' = "installing"
  /\ cacheStorage' = cachesOpen(cacheStorage, CACHE_NAME)
  /\ UNCHANGED <<workerRest, toDelete, inFlight, answered, keysSeen, activations>>

\* cache.addAll(urlsToCache) fetching every URL, then skipWaiting(); if a
\* fetch fails nothing is added and the worker is discarded
InstallAddAll ==
  /\ workerState = "installing"
  /\ \E fetched \in BOOLEAN :
       /\ workerState' = IF fetched THEN "installed" ELSE "redundant"
       /\ cacheStorage' =
            IF fetched THEN cacheAdd(cacheStorage, CACHE_NAME, urlsToCache)
            ELSE cacheStorage
  /\ UNCHANGED <<workerRest, toDelete, inFlight, answered, keysSeen, activations>>

\* the activate event: caches.keys() and the deletions it asks for
ActivateKeys ==
  /\ workerState \in {"installed", "activated"}
  /\ activations < MaxActivations
  /\ activations' = activations + 1
  /\ workerState' = "activating"
  /\ keysSeen' = cachesKeys(cacheStorage)
  /\ toDelete' = {cacheName \in cachesKeys(cacheStorage) : isOldCache(cacheName)}
  /\ UNCHANGED <<workerRest, cacheStorage, inFlight, answered>>

\* one caches.delete(cacheName) of activate
ActivateDelete ==
  /\ workerState = "activating"
  /\ \E cacheName \in toDelete :
       /\ cacheStorage' = cachesDelete(cacheStorage, cacheName)
       /\ toDelete' = toDelete \ {cacheName}
  /\ UNCHANGED <<workerRest, workerState, inFlight, answered, keysSeen, activations>>

\* Promise.all has resolved: clients.claim()
ActivateClaim ==
  /\ workerState = "activating"
  /\ toDelete = {}
  /\ workerState' = "activated"
  /\ UNCHANGED <<workerRest, cacheStorage, toDelete, inFlight, answered, keysSeen,
                 activations>>

\* the worker has finished installing
installed == workerState \in {"installed", "activating", "activated"}

\* the fetch event of a request: the handler returns at once unless the method
\* is GET, and else asks caches.match
FetchEvent ==
  /\ installed
  /\ Cardinality(answered) + Len(inFlight) < MaxRequests
  /\ \E method \in Methods, url \in RequestURLs :
       /\ IF method # "GET"
          THEN /\ answered' = answered \cup
                    {[method |-> method, url |-> url, from |-> "unanswered",
                      fetched |-> FALSE]}
               /\ UNCHANGED inFlight
          ELSE /\ inFlight' = Append(inFlight, [url |-> url, stage |-> "match"])
               /\ UNCHANGED answered
  /\ UNCHANGED <<workerRest, cacheStorage, workerState, toDelete, keysSeen,
                 activations>>

\* the sequence without its k-th element
without(seq, k) == [i \in 1..(Len(seq) - 1) |-> IF i < k THEN seq[i] ELSE seq[i + 1]]

\* caches.match(event.request) has resolved: a hit is the answer, a miss goes
\* to the network
FetchMatch ==
  /\ \E k \in DOMAIN inFlight :
       /\ inFlight[k].stage = "match"
       /\ IF cachesMatch(cacheStorage, inFlight[k].url)
          THEN /\ answered' = answered \cup
                    {[method |-> "GET", url |-> inFlight[k].url, from |-> "cache",
                      fetched |-> FALSE]}
               /\ inFlight' = without(inFlight, k)
          ELSE /\ inFlight' = [inFlight EXCEPT ![k].stage = "fetch"]
               /\ UNCHANGED answered
  /\ UNCHANGED <<workerRest, cacheStorage, workerState, toDelete, keysSeen,
                 activations>>

\* fetch(fetchRequest) has settled: a response of status 200 and type basic is
\* the answer and is put in the cache, any other response is the answer, and
\* a failure is answered with nothing
FetchNetwork ==
  /\ \E k \in DOMAIN inFlight, outcome \in {"ok", "other", "failed"} :
       /\ inFlight[k].stage = "fetch"
       /\ answered' = answered \cup
            {[method |-> "GET", url |-> inFlight[k].url,
              from |-> IF outcome = "failed" THEN "nothing" ELSE "network",
              fetched |-> TRUE]}
       /\ inFlight' =
            IF outcome = "ok" /\ sameOrigin(inFlight[k].url)
            THEN [inFlight EXCEPT ![k].stage = "put"]
            ELSE without(inFlight, k)
  /\ UNCHANGED <<workerRest, cacheStorage, workerState, toDelete, keysSeen,
                 activations>>

\* caches.open(CACHE_NAME) and cache.put(event.request, responseToCache)
FetchPut ==
  /\ \E k \in DOMAIN inFlight :
       /\ inFlight[k].stage = "put"
       /\ cacheStorage' =
            cacheAdd(cachesOpen(cacheStorage, CACHE_NAME), CACHE_NAME,
                     {inFlight[k].url})
       /\ inFlight' = without(inFlight, k)
  /\ UNCHANGED <<workerRest, workerState, toDelete, answered, keysSeen, activations>>

WorkerNext ==
  \/ InstallOpen
  \/ InstallAddAll
  \/ ActivateKeys
  \/ ActivateDelete
  \/ ActivateClaim
  \/ FetchEvent
  \/ FetchMatch
  \/ FetchNetwork
  \/ FetchPut

SpecWorker == WorkerInit /\ [][WorkerNext]_vars

(***************************************************************************)
(* The player (app.js) around the engine.  A handler runs as one step: its *)
(* awaits of play, replay, decode and loadSHAC are on promises that settle *)
(* without leaving the microtask queue, so no other event is handled       *)
(* before the handler ends.  The one await that lets other events in is    *)
(* the read of the file (file.arrayBuffer(), the download, the cache),     *)
(* which splits a load in two steps.  The clock of the audio context ticks *)
(* once per sample, so a duration is a number of ticks.                    *)
(***************************************************************************)
\* the files loaded: one layer, another single layer, and two layers of
\* which the second cannot be rendered
PlayerFiles ==
  {fileOf(<<monoLayer>>, 1), fileOf(<<spatialLayer>>, 1),
   fileOf(<<spatialLayer, emptyLayer>>, 1)}

PlayerInit ==
  /\ arrayBuffer = <<>>
  /\ DecFresh
  /\ heap = <<>>
  /\ audioIn = <<>>
  /\ rotated = <<>>
  /\ rotArgs = <<>>
  /\ rotCalls = 0
  /\ shLast = <<>>
  /\ shCalls = 0
  /\ rotLookup = <<>>
  /\ rotLookups = 0
  /\ PoolFresh
  /\ ListenerFresh
  /\ WorkerFresh
  /\ audioContext \in {"null", "context"}
  /\ engineLayers = <<>>
  /\ isPlaying = FALSE
  /\ startTime = 0
  /\ pauseTime = 0
  /\ currentTime = 0
  /\ shacData = <<>>
  /\ audioSources = <<>>
  /\ engineLast = <<>>
  /\ engineCalls = 0
  /\ currentSHAC = <<>>
  /\ controlsIsPlaying = FALSE
  /\ updateInterval = FALSE
  /\ duration = 0
  /\ loads = <<>>
  /\ playerLast = <<>>
  /\ playerCalls = 0

\* all that the handlers of the player leave alone
playerRest ==
  <<decVars, cacheVars, audioIn, rotated, rotArgs, rotCalls, shVars, lookVars,
    outstanding, poolLast, poolCalls, currentTime, shacData, engineLast,
    engineCalls, lisVars, swVars>>

\* the engine is left as e
engineBecomes(e) ==
  /\ audioContext' = e.audioContext
  /\ engineLayers' = e.layers
  /\ isPlaying' = e.isPlaying
  /\ startTime' = e.startTime
  /\ pauseTime' = e.pauseTime
  /\ audioSources' = e.audioSources
  /\ heap' = e.bp.heap
  /\ audioBufferPool' = poolOf(e.bp)

\* a press or a timer tick handled
playerCall(op) ==
  /\ playerCalls < MaxPlayerCalls
  /\ playerCalls' = playerCalls + 1
  /\ playerLast' = <<op>>

\* loadFile, loadFromZus or loadCachedFile up to its read of the file;
\* overlaps is history: whether an earlier load was still under way
StartLoad ==
  \E file \in PlayerFiles :
    /\ Len(loads) < MaxLoads
    /\ loads' = Append(loads, [file |-> file, stage |-> "reading",
                               overlaps |-> \E j \in DOMAIN loads :
                                              loads[j].stage = "reading"])
    /\ playerLast' = <<"load">>
    /\ UNCHANGED <<playerRest, audioContext, engineLayers, isPlaying, startTime,
                   pauseTime, audioSources, heap, audioBufferPool, currentSHAC,
                   controlsIsPlaying, updateInterval, duration, playerCalls>>

\* the rest of a load whose loadSHAC has left the engine as e: currentSHAC is
\* set if loadSHAC has returned, the duration if its clear() has
loadEnds(k, e, cleared) ==
  /\ engineBecomes(e)
  /\ duration' = IF cleared THEN loads[k].file.n_samples ELSE duration
  /\ currentSHAC' = IF e.err = "" THEN <<loads[k].file>> ELSE currentSHAC
  /\ loads' = [loads EXCEPT ![k].stage = IF e.err = "" THEN "done" ELSE "failed"]

\* the read of a load has ended: the file is decoded, or the decoder throws,
\* then loaded into the engine, in a memory with or without room
FinishLoad ==
  \E k \in DOMAIN loads, decoded \in BOOLEAN, room \in {0, 20} :
    /\ loads[k].stage = "reading"
    /\ playerLast' = <<"loaded">>
    /\ IF decoded
       THEN loadEnds(k, loadSHAC(engineNow, currentTime, loads[k].file, room),
                     clear(engineNow, currentTime).err = "")
       ELSE /\ loads' = [loads EXCEPT ![k].stage = "failed"]
            /\ UNCHANGED <<audioContext, engineLayers, isPlaying, startTime,
                           pauseTime, audioSources, heap, audioBufferPool,
                           currentSHAC, duration>>
    /\ UNCHANGED <<playerRest, controlsIsPlaying, updateInterval, playerCalls>>

\* controls.setPlaying(playing) with startUpdateLoop() or stopUpdateLoop(),
\* unless the engine has thrown
showPlaying(e, playing) ==
  /\ engineBecomes(e)
  /\ controlsIsPlaying' = IF e.err = "" THEN playing ELSE controlsIsPlaying
  /\ updateInterval' = IF e.err = "" THEN playing ELSE updateInterval

\* controls.onPlayPause
OnPlayPause ==
  \E available \in BOOLEAN :
    /\ currentSHAC # <<>>
    /\ playerCall("playPause")
    /\ IF isPlaying
       THEN showPlaying(pause(engineNow, currentTime), FALSE)
       ELSE showPlaying(play(engineNow, currentTime, available), TRUE)
    /\ UNCHANGED <<playerRest, currentSHAC, duration, loads>>

\* controls.onReplay
OnReplay ==
  \E available \in BOOLEAN :
    /\ currentSHAC # <<>>
    /\ playerCall("replay")
    /\ showPlaying(replay(engineNow, currentTime, available), TRUE)
    /\ UNCHANGED <<playerRest, currentSHAC, duration, loads>>

\* the callback of the update interval, with its automatic stop at the end
IntervalTick ==
  /\ updateInterval
  /\ playerCall("tick")
  /\ IF isPlaying /\ getCurrentTime(engineNow, currentTime) >= duration
     THEN showPlaying(pause(engineNow, currentTime), FALSE)
     ELSE UNCHANGED <<audioContext, engineLayers, isPlaying, startTime, pauseTime,
                      audioSources, heap, audioBufferPool, controlsIsPlaying,
                      updateInterval>>
  /\ UNCHANGED <<playerRest, currentSHAC, duration, loads>>

PlayerNext ==
  \/ StartLoad
  \/ FinishLoad
  \/ OnPlayPause
  \/ OnReplay
  \/ IntervalTick
  \/ Tick

SpecPlayer == PlayerInit /\ [][PlayerNext]_vars

ListenerNext ==
  \/ MoveListener
  \/ MoveListenerAbsolute
  \/ SetListenerPosition
  \/ RotateListener
  \/ ResetListener
  \/ SetPreset

SpecListener == ListenerInit /\ [][ListenerNext]_vars

RenderNext == CreateAudioBuffer

SpecRender == RenderInit /\ [][RenderNext]_vars

SpecLookup == LookupInit /\ [][LookupNext]_vars


(***************************************************************************)
(* What the input holds, read off the bytes without the decoder.           *)
(***************************************************************************)
\* the buffer starts with 'S' 'H' 'A' 'C'
MagicOk(buf) == Len(buf) >= 4 /\ SubSeq(buf, 1, 4) = <<83, 72, 65, 67>>

\* the u16 stored little-endian at offset o
StoredU16(buf, o) == buf[o + 1] + 256 * buf[o + 2]

\* the signed little-endian 16-bit integer at offset o, over 32767
StoredSample16(buf, o) ==
  <<(IF buf[o + 2] >= 128 THEN buf[o + 2] - 256 ELSE buf[o + 2]) * 256 + buf[o + 1],
    32767>>

\* the little-endian IEEE float at offset o, most significant byte first
StoredSample32(buf, o) == <<buf[o + 4], buf[o + 3], buf[o + 2], buf[o + 1]>>

StoredSample(buf, o, bitDepth) ==
  IF bitDepth = 16 THEN StoredSample16(buf, o) ELSE StoredSample32(buf, o)

\* decode has started every layer's read
LayersRead == pc \in {"awaitAll", "awaitRead", "returned", "thrown"} /\ indexPromise = "resolved"

\* index entry i is the last of its id: its layer is the one the map keeps
KeptEntry(i) == \A j \in DOMAIN layerIndex : layerIndex[j].id = layerIndex[i].id => j <= i

(***************************************************************************)
(* C1.  decode accepts a buffer only if it starts with 'SHAC' and its      *)
(* version is 1.  On a magic mismatch decode fails having read nothing     *)
(* beyond the four magic bytes, with the header unset and the layer index  *)
(* empty; a buffer with the right magic and another version fails too.     *)
(***************************************************************************)
C1_MagicThenVersion ==
  /\ pc = "returned" => MagicOk(arrayBuffer) /\ StoredU16(arrayBuffer, 4) = 1
  /\ (pc # "idle" /\ ~ MagicOk(arrayBuffer)) =>
       /\ pc = "thrown"
       /\ header = NullHeader
       /\ layerIndex = <<>>
       /\ bytesRead \subseteq 0..3
  /\ (pc # "idle" /\ MagicOk(arrayBuffer) /\ Len(arrayBuffer) >= 6
        /\ StoredU16(arrayBuffer, 4) # 1) =>
       /\ pc = "thrown"
       /\ layerIndex = <<>>
       /\ DOMAIN layers = {}

\* decode has rejected a file of wrong magic whose version field is wrong too
C1_Witness ==
  /\ pc = "thrown"
  /\ error = "BadMagic"
  /\ Len(arrayBuffer) > 26
  /\ StoredU16(arrayBuffer, 4) # 1

(***************************************************************************)
(* C2.  The index pass fails whenever an offset or size it computes        *)
(* exceeds the buffer: every entry it records lies inside the buffer, and  *)
(* its promise is fulfilled only if every declared layer does.             *)
(***************************************************************************)
C2_IndexRejectsTruncated ==
  \A i \in DOMAIN layerIndex :
    layerIndex[i].dataOffset + layerIndex[i].dataSize <= Len(arrayBuffer)

(***************************************************************************)
(* C3.  Every header decode accepts has n_channels = (order + 1)^2 and     *)
(* bit_depth 16 or 32; no other header sizes or decodes a layer payload.   *)
(***************************************************************************)
HeaderConsistent(h) ==
  /\ h.n_channels = (h.order + 1) * (h.order + 1)
  /\ h.bit_depth \in {16, 32}

C3_HeaderConsistent ==
  /\ pc = "returned" => HeaderConsistent(header)
  /\ layerIndex # <<>> => HeaderConsistent(header)
  /\ layerPromises # <<>> => HeaderConsistent(header)

(***************************************************************************)
(* C4.  decode is all-or-nothing: it returns a result with the header and  *)
(* a layer for every index entry, or it throws and returns nothing; the    *)
(* layers map is never partly filled, and is empty whenever decode throws. *)
(***************************************************************************)
C4_AllOrNothing ==
  /\ pc = "thrown" => result = <<>> /\ DOMAIN layers = {}
  /\ result # <<>> => pc = "returned"
  /\ pc = "returned" =>
       /\ Len(result) = 1
       /\ result[1].header = header
       /\ header.magic = "SHAC"
       /\ result[1].layers = layers
       /\ result[1].layerIndex = layerIndex
       /\ Len(layerIndex) = header.n_layers
       /\ \A i \in DOMAIN layerIndex : layerIndex[i].id \in DOMAIN layers
       /\ Range(result[1].layerNames) = DOMAIN layers
  /\ DOMAIN layers = {} \/ DOMAIN layers = {layerIndex[i].id : i \in DOMAIN layerIndex}

\* decode has thrown although one of the layers had been read
C4_Witness ==
  /\ pc = "thrown"
  /\ \E i \in DOMAIN layerPromises : layerPromises[i].ok
  /\ \E i \in DOMAIN layerPromises : ~ layerPromises[i].ok

(***************************************************************************)
(* C5.  When header and index parse succeed, a layer whose read fails does *)
(* not take its siblings with it: decode still returns, and delivers every *)
(* layer that was read.                                                    *)
(***************************************************************************)
C5_SiblingsDelivered ==
  (pc \in {"returned", "thrown"} /\ indexPromise = "resolved") =>
    /\ pc = "returned"
    /\ \A i \in DOMAIN layerPromises :
         layerPromises[i].ok => layerPromises[i].id \in DOMAIN layers

(***************************************************************************)
(* C6.  No metadata makes a layer's read fail.  For every layer whose      *)
(* bytes lie inside the buffer the read succeeds with the audio read, and  *)
(* its metadata is the strict parse if that succeeds, else the parse of    *)
(* the rewritten legacy text if that succeeds, else exactly                *)
(* {position: [0, 0, 0], gain: 1.0}.                                       *)
(***************************************************************************)
MetadataText(e) ==
  TextDecode(Slice(arrayBuffer, e.dataOffset - e.metadataLength, e.metadataLength))

ExpectedMetadata(text) ==
  IF JSONParse(text).ok THEN JSONParse(text).v
  ELSE IF JSONParse(normalizeLegacy(text)).ok THEN JSONParse(normalizeLegacy(text)).v
  ELSE JObj(<<JStr(<<"p", "o", "s", "i", "t", "i", "o", "n">>),
              JArr(<<JNum(<<"0">>), JNum(<<"0">>), JNum(<<"0">>)>>),
              JStr(<<"g", "a", "i", "n">>), JNum(<<"1">>)>>)

C6_MetadataNeverFails ==
  LayersRead =>
    \A i \in DOMAIN layerIndex :
      layerIndex[i].dataOffset + layerIndex[i].dataSize <= Len(arrayBuffer) =>
        /\ layerPromises[i].ok
        /\ layerPromises[i].metadata = ExpectedMetadata(MetadataText(layerIndex[i]))
        /\ Len(layerPromises[i].audioData) = header.n_channels

\* a layer whose metadata neither parse accepts has been read, audio included,
\* and decode has returned it
C6_Witness ==
  /\ pc = "returned"
  /\ \E i \in DOMAIN layerPromises :
       /\ layerPromises[i].via = "default"
       /\ KeptEntry(i)
       /\ layers[layerPromises[i].id].metadata.t = "obj"
       /\ Len(layers[layerPromises[i].id].audioData) = 4
       /\ header.n_samples > 0

(***************************************************************************)
(* C7.  In a decoded file of bit depth 16 or 32 every layer has            *)
(* n_channels channel buffers of n_samples samples each, and sample s of   *)
(* channel ch is the value stored at byte                                  *)
(* dataOffset + (ch * n_samples + s) * bytesPerSample (channel-major).     *)
(***************************************************************************)
C7_ChannelMajor ==
  (pc = "returned" /\ header.bit_depth \in {16, 32}) =>
    \A i \in DOMAIN layerIndex :
      KeptEntry(i) =>
        /\ Len(layers[layerIndex[i].id].audioData) = header.n_channels
        /\ \A ch \in 0..(header.n_channels - 1) :
             /\ Len(layers[layerIndex[i].id].audioData[ch + 1]) = header.n_samples
             /\ \A sm \in 0..(header.n_samples - 1) :
                  layers[layerIndex[i].id].audioData[ch + 1][sm + 1]
                    = StoredSample(arrayBuffer,
                                   layerIndex[i].dataOffset
                                     + (ch * header.n_samples + sm)
                                         * (header.bit_depth \div 8),
                                   header.bit_depth)

\* a file of several channels and several samples has been decoded
C7_Witness ==
  /\ pc = "returned"
  /\ header.bit_depth = 16
  /\ header.n_channels = 4
  /\ header.n_samples >= 2
  /\ Len(layerIndex) >= 2

(***************************************************************************)
(* C8.  Sample decoding does not depend on the payload's alignment: the    *)
(* samples of every layer read equal those the typed-view path gives for   *)
(* the same payload bytes at an aligned offset, and a 16-bit sample is the *)
(* signed little-endian integer of its byte pair over 32767.               *)
(***************************************************************************)
\* the payload of index entry e, on its own: it starts at the aligned offset 0
PayloadOf(e) == Slice(arrayBuffer, e.dataOffset, e.dataSize)

C8_AlignmentIndependent ==
  LayersRead =>
    \A i \in DOMAIN layerIndex :
      layerPromises[i].ok =>
        /\ layerPromises[i].audioData
             = readAudioDataOptimized(PayloadOf(layerIndex[i]), 0, header.n_channels,
                                      header.n_samples, header.bit_depth).audioData
        /\ header.bit_depth = 16 =>
             \A ch \in 0..(header.n_channels - 1) : \A sm \in 0..(header.n_samples - 1) :
               layerPromises[i].audioData[ch + 1][sm + 1]
                 = StoredSample16(arrayBuffer,
                                  layerIndex[i].dataOffset
                                    + (ch * header.n_samples + sm) * 2)

\* a 16-bit layer at an odd offset has been read, a negative sample among them
C8_Witness ==
  /\ LayersRead
  /\ header.bit_depth = 16
  /\ \E i \in DOMAIN layerIndex :
       /\ layerPromises[i].ok
       /\ layerIndex[i].dataOffset % 2 = 1
       /\ \E ch \in 1..header.n_channels : \E sm \in 1..header.n_samples :
            layerPromises[i].audioData[ch][sm][1] < 0

(***************************************************************************)
(* C9.  rotateAmbisonics never writes to its input.  A call on a channel   *)
(* set of (order + 1)^2 channels leaves every buffer that existed before   *)
(* the call as it was, and returns as many buffers, all new and of the     *)
(* input's length, in which rotated[i][s] is the sum over j of             *)
(* M[i][j] * channels[j][s], M being the matrix of the cache for the       *)
(* call's key.                                                             *)
(***************************************************************************)
RECURSIVE MatrixRowTimes(_, _, _, _, _)
\* the sum over the channels from j on of M[i][j] * channels[j][s], Unit to the 1
MatrixRowTimes(M, channels, i, sm, j) ==
  IF j > Len(channels) THEN 0
  ELSE M[(i - 1) * Len(channels) + j] * channels[j][sm]
         + MatrixRowTimes(M, channels, i, sm, j + 1)

\* the matrix the last call of rotateAmbisonics was given, in the next state
MatrixUsed ==
  rotationCache'[rotationCacheKey(SqrtExact(Len(rotArgs'[1].audioData)) - 1,
                                  rotArgs'[1].yaw, rotArgs'[1].pitch,
                                  rotArgs'[1].roll)]

RotationStep ==
  rotCalls' # rotCalls =>
    /\ \A b \in DOMAIN heap : b \in DOMAIN heap' /\ heap'[b] = heap[b]
    /\ Len(rotated') = Len(rotArgs'[1].audioData)
    /\ \A i \in DOMAIN rotated' :
         /\ rotated'[i] \notin DOMAIN heap
         /\ \A k \in DOMAIN rotated' : rotated'[k] = rotated'[i] => k = i
         /\ Len(heap'[rotated'[i]]) = Len(heap[rotArgs'[1].audioData[1]])
         /\ \A sm \in DOMAIN heap'[rotated'[i]] :
              Unit * heap'[rotated'[i]][sm]
                = MatrixRowTimes(MatrixUsed,
                                 [j \in DOMAIN rotArgs'[1].audioData |->
                                    heap[rotArgs'[1].audioData[j]]],
                                 i, sm, 1)

C9_RotateLeavesInput == [][RotationStep]_vars

\* a set returned by an earlier call has been rotated by a quarter turn of
\* yaw, which moved its samples, and the caller's own set is as it was
C9_Witness ==
  /\ rotCalls = 2
  /\ rotArgs[1].audioData # audioIn
  /\ rotArgs[1].yaw = QuarterTurn
  /\ Len(rotated) = 4
  /\ \E i \in DOMAIN rotated : heap[rotated[i]] # heap[rotArgs[1].audioData[i]]
  /\ \E i \in DOMAIN audioIn : \E sm \in DOMAIN heap[audioIn[i]] :
       heap[audioIn[i]][sm] = SampleOf(1, i, sm) /\ heap[audioIn[i]][sm] # 0

(***************************************************************************)
(* C10.  For every order O and every direction, each spherical-harmonic    *)
(* routine (the decoder's computeSphericalHarmonicsVectorized and the      *)
(* engine's computeSphericalHarmonics) returns exactly (O + 1)^2 defined   *)
(* coefficients, the one at index 0 being 1.0.                             *)
(***************************************************************************)
C10_BasisSizeAndUnitW ==
  \A i \in DOMAIN shLast :
    /\ shLast[i].ok
    /\ Len(shLast[i].coeffs) = (shLast[i].order + 1) * (shLast[i].order + 1)
    /\ \A k \in DOMAIN shLast[i].coeffs : shLast[i].coeffs[k] # Undefined
    /\ shLast[i].coeffs[1] = Number(<<1, 1>>)

(***************************************************************************)
(* C11.  For every order O the rotation matrix computed for                *)
(* yaw = pitch = roll = 0 is the identity of size (O + 1)^2: every         *)
(* diagonal entry is 1 and every other entry is 0.                         *)
(***************************************************************************)
\* entry (i, j) of the identity
IdentityAt(i, j) == IF i = j THEN Unit ELSE 0

IsIdentity(M, size) ==
  /\ Len(M) = size * size
  /\ \A i \in 0..(size - 1) : \A j \in 0..(size - 1) :
       M[i * size + j + 1] = IdentityAt(i, j)

C11_ZeroRotationIsIdentity ==
  \A i \in DOMAIN rotArgs :
    (rotArgs[i].yaw = 0 /\ rotArgs[i].pitch = 0 /\ rotArgs[i].roll = 0) =>
      IsIdentity(computeRotationMatrix(SqrtExact(Len(rotArgs[i].audioData)) - 1, 0, 0, 0),
                 Len(rotArgs[i].audioData))

(***************************************************************************)
(* C12.  The two caches are pure memoization: whatever lookups came        *)
(* before, getCachedRotationMatrix returns the matrix computeRotationMatrix*)
(* computes for the call's own arguments, and                              *)
(* computeSphericalHarmonicsVectorized returns the coefficients it         *)
(* computes for its own arguments on an empty cache.                       *)
(***************************************************************************)
C12_CachesArePureMemo ==
  /\ \A i \in DOMAIN rotLookup :
       rotLookup[i].matrix
         = computeRotationMatrix(rotLookup[i].order, rotLookup[i].yaw,
                                 rotLookup[i].pitch, rotLookup[i].roll)
  /\ \A i \in DOMAIN shLast :
       shLast[i].routine = "decoder" =>
         shLast[i].coeffs
           = vectorizedMiss(shLast[i].order, shLast[i].azimuth,
                            shLast[i].elevation).coeffs


\* C13: both caches are bounded: each has a fixed finite capacity and never
\* holds more entries than it
C13_CachesBounded ==
  /\ sizeReaches(SH_CACHE_SIZE.n, SH_CACHE_SIZE)
  /\ Cardinality(DOMAIN shCache) <= SH_CACHE_SIZE.n
  /\ sizeReaches(ROTATION_CACHE_SIZE.n, ROTATION_CACHE_SIZE)
  /\ Cardinality(DOMAIN rotationCache) <= ROTATION_CACHE_SIZE.n

\* the step is a call of acquire that returns
AcquireStep ==
  poolCalls' = poolCalls + 1 /\ poolLast'[1].op = "acquire" /\ ~poolLast'[1].threw

\* the step is a call of release
ReleaseStep == poolCalls' = poolCalls + 1 /\ poolLast'[1].op = "release"

\* C18: no buffer is in the hands of two holders at once: the buffer an
\* acquire returns is none of those an earlier acquire returned and that no
\* release was called on since
C18_NoBufferHeldTwice ==
  [][AcquireStep => poolLast'[1].buffer \notin outstanding]_vars

\* an acquire has reused a released buffer while another buffer of the same
\* length was still held
C18_Witness ==
  /\ poolLast # <<>>
  /\ poolLast[1].op = "acquire"
  /\ audioBufferPool.stats.reused > 0
  /\ \E b \in outstanding \ {poolLast[1].buffer} :
       Len(heap[b]) = Len(heap[poolLast[1].buffer])

\* the buffers of the pool of the given length that nobody holds
ReleasedOfSize(size) ==
  {b \in Range(audioBufferPool.pool) : Len(heap[b]) = size /\ b \notin outstanding}

\* C19: with holders writing only to buffers they hold, acquire(size) returns
\* a buffer of length size holding only zeros, one of the released buffers of
\* that length if there is one and a new buffer only if there is none; and a
\* release of a buffer nobody holds changes nothing
C19_AcquireZeroedReuseFirst ==
  [][/\ AcquireStep =>
          /\ Len(heap'[poolLast'[1].buffer]) = poolLast'[1].size
          /\ \A i \in 1..poolLast'[1].size : heap'[poolLast'[1].buffer][i] = 0
          /\ IF ReleasedOfSize(poolLast'[1].size) # {}
             THEN /\ poolLast'[1].buffer \in ReleasedOfSize(poolLast'[1].size)
                  /\ heap' = heap
                  /\ audioBufferPool'.pool = audioBufferPool.pool
             ELSE /\ poolLast'[1].buffer \notin DOMAIN heap
                  /\ audioBufferPool'.pool =
                       Append(audioBufferPool.pool, poolLast'[1].buffer)
     /\ (ReleaseStep /\ poolLast'[1].buffer \notin outstanding) =>
          /\ heap' = heap
          /\ audioBufferPool' = audioBufferPool]_vars

\* an acquire has reused a buffer that was released
C19_Witness ==
  /\ poolLast # <<>>
  /\ poolLast[1].op = "acquire"
  /\ audioBufferPool.stats.reused > 0
  /\ audioBufferPool.stats.created = 1
  /\ poolLast[1].size > 0

\* the last call on the engine was createAudioBuffer
Rendered == engineLast # <<>> /\ engineLast[1].op = "createAudioBuffer"

\* n is (order + 1)^2 for a whole order
IsChannelCount(n) == \E order \in 0..n : (order + 1) * (order + 1) = n

\* C14: createAudioBuffer fails whenever the number of channels is not
\* (order + 1)^2 for a whole order, and makes no stereo buffer of such data
C14_RejectsOtherChannelCounts ==
  (Rendered /\ ~IsChannelCount(engineLast[1].numChannels)) =>
    /\ ~engineLast[1].ok
    /\ engineLast[1].audioBuffer = NoAudioBuffer

\* the step is a call of createAudioBuffer
RenderStep ==
  engineCalls' = engineCalls + 1 /\ engineLast'[1].op = "createAudioBuffer"

\* C15: createAudioBuffer fails whenever the layer has 0 samples, before it
\* has created an output buffer and before it has acquired a pool buffer
C15_NoSamplesFailsFirst ==
  [][(RenderStep /\ engineLast'[1].numSamples = 0) =>
       /\ ~engineLast'[1].ok
       /\ engineLast'[1].created = 0
       /\ audioBufferPool' = audioBufferPool
       /\ heap' = heap]_vars

\* a layer of 16 channels without samples was refused by an engine with a
\* context, with buffers in the pool from an earlier render
C15_Witness ==
  /\ Rendered
  /\ engineLast[1].numSamples = 0
  /\ engineLast[1].numChannels = 16
  /\ engineLast[1].err = "Audio data has no samples"
  /\ audioContext = "context"
  /\ audioBufferPool.pool # <<>>

\* C20: whatever createAudioBuffer calls completed or failed, no pool buffer
\* is left marked in use, and the pool holds at most 20 buffers of a length
C20_RenderReleasesAll ==
  /\ audioBufferPool.inUse = {}
  /\ \A size \in 0..(MaxRenderLen + 1) :
       Cardinality({i \in 1..Len(audioBufferPool.pool) :
                      Len(heap[audioBufferPool.pool[i]]) = size}) <= 20

\* the step is a call on the engine
EngineStep(op) == engineCalls' = engineCalls + 1 /\ engineLast'[1].op = op

\* the render of the layer succeeds in a memory with the given room
Renderable(layer, room) ==
  /\ Len(layer.audioData) > 0
  /\ Len(layer.audioData[1]) > 0
  /\ (Len(layer.audioData) < 4 \/ room >= speakerCount(Len(layer.audioData)))

Registered(layersNow, name) == \E j \in DOMAIN layersNow : layersNow[j].name = name

HoldsPreMixed(layersNow) == \E i \in DOMAIN layersNow : layersNow[i].pre_mixed

PlaybackStep ==
  EngineStep("play") \/ EngineStep("pause") \/ EngineStep("replay") \/ EngineStep("clear")

\* C17: on an engine with a context that holds a pre-mixed layer, play,
\* pause, replay and clear complete, play and replay leave the engine
\* playing, and after every call a pre-mixed layer has no panner and its
\* source is connected to the destination
C17_PreMixedPlaysUnpanned ==
  [][/\ (PlaybackStep /\ HoldsPreMixed(engineLayers) /\ audioContext' = "context") =>
          /\ engineLast'[1].ok
          /\ (EngineStep("play") \/ EngineStep("replay")) => isPlaying'
     /\ (engineCalls' = engineCalls + 1 /\ audioContext' = "context") =>
          \A i \in DOMAIN engineLayers' :
            engineLayers'[i].pre_mixed =>
              /\ engineLayers'[i].pannerNode = NullNode
              /\ engineLayers'[i].sourceNode.kind = "source"
              /\ engineLayers'[i].sourceNode.to = "destination"]_vars

\* the id length the file has in the layer header at the offset
IdLengthAt(offset) == getUint16(arrayBuffer, offset)

\* the entry describes the layer whose header is at its headerOffset
EntryLaidOut(e) ==
  /\ e.dataOffset = e.headerOffset + 6 + IdLengthAt(e.headerOffset) + e.metadataLength
  /\ e.metadataLength = getUint32(arrayBuffer, e.headerOffset + 2)
  /\ e.dataSize = header.n_channels * header.n_samples
                    * (IF header.bit_depth = 16 THEN 2 ELSE 4)

\* C24: a buildLayerIndex that succeeds has recorded header.n_layers
\* entries in file order: the first header at 26, each payload right after
\* its layer header, id and metadata and of n_channels * n_samples *
\* bytesPerSample bytes, each next header right after the payload; the byte
\* ranges of two layers do not meet, and no layer has been stored yet when
\* the pass ends
C24_IndexLaysOutLayers ==
  indexPromise = "resolved" =>
    /\ Len(layerIndex) = header.n_layers
    /\ layerIndex # <<>> => layerIndex[1].headerOffset = 26
    /\ \A i \in DOMAIN layerIndex : EntryLaidOut(layerIndex[i])
    /\ \A i \in DOMAIN layerIndex :
         i < Len(layerIndex) =>
           layerIndex[i + 1].headerOffset =
             layerIndex[i].dataOffset + layerIndex[i].dataSize
    /\ \A i, j \in DOMAIN layerIndex :
         i < j => layerIndex[i].dataOffset + layerIndex[i].dataSize
                    <= layerIndex[j].headerOffset
    /\ pc = "awaitIndex" => layers = EmptyMap

\* an index of two layers with payloads has just been built
C24_Witness ==
  /\ indexPromise = "resolved"
  /\ pc = "awaitIndex"
  /\ Len(layerIndex) = 2
  /\ layerIndex[1].dataSize > 0
  /\ layerIndex[1].metadataLength > 0

\* the entry of row r and column c (from 0) of a matrix of n rows
EntryAt(matrix, n, r, c) == matrix[r * n + c + 1]

\* the matrix over n channels is block-diagonal by degree, with the block
\* of degree 0 and the blocks of the degrees from 4 on those of the identity
BlockDiagonal(matrix, n) ==
  /\ Len(matrix) = n * n
  /\ EntryAt(matrix, n, 0, 0) = Unit
  /\ \A r, c \in 0..(n - 1) :
       /\ degreeOf(r) # degreeOf(c) => EntryAt(matrix, n, r, c) = 0
       /\ (degreeOf(r) >= 4 /\ degreeOf(c) >= 4) =>
            EntryAt(matrix, n, r, c) = IF r = c THEN Unit ELSE 0

\* C25: the matrix computeRotationMatrix makes for an order is square over
\* the (order + 1)^2 channels and block-diagonal by degree: nothing is
\* written outside the block of the degree a rotation step is for, the
\* degree-0 row and column and the blocks of degrees >= 4 are the identity's
C25_RotationBlockDiagonal ==
  rotLookup # <<>> =>
    BlockDiagonal(rotLookup[1].matrix,
                  (rotLookup[1].order + 1) * (rotLookup[1].order + 1))

(***************************************************************************)
(* C21.  For every loaded layer, a position component that is not a finite *)
(* number is treated as 0: the panner that places the layer, the position  *)
(* the layers map stores and the positions of audioSources all hold three  *)
(* finite numbers.                                                         *)
(***************************************************************************)
FinitePosition(position) ==
  /\ position.given
  /\ Len(position.xyz) = 3
  /\ \A i \in 1..3 : position.xyz[i].kind = "number"

C21_PositionsFinite ==
  /\ \A i \in DOMAIN engineLayers :
       /\ FinitePosition(engineLayers[i].position)
       /\ engineLayers[i].pannerNode # NullNode
            => FinitePosition(engineLayers[i].pannerNode.position)
  /\ \A k \in DOMAIN audioSources : FinitePosition(audioSources[k].position)

\* the part of C21 the code keeps: the panner is always placed at finite numbers
C21_PannerFinite ==
  \A i \in DOMAIN engineLayers :
    engineLayers[i].pannerNode # NullNode
      => FinitePosition(engineLayers[i].pannerNode.position)

(***************************************************************************)
(* C28.  Playback position survives pause and resume: on an engine with an *)
(* audio context, play while playing and pause while not playing change no *)
(* state; the position getCurrentTime reports right after a play that      *)
(* follows a pause is the position reported at that pause; and replay      *)
(* leaves the engine playing from position 0.                              *)
(***************************************************************************)
EngineState ==
  <<audioContext, engineLayers, isPlaying, startTime, pauseTime, audioSources>>

\* the call that has just returned
Called(op) ==
  /\ engineCalls' = engineCalls + 1
  /\ engineLast'[1].op = op

PositionNow == getCurrentTime(engineNow, currentTime)

C28_Step ==
  audioContext = "context" =>
    /\ Called("play") /\ isPlaying => UNCHANGED EngineState
    /\ Called("pause") /\ ~isPlaying => UNCHANGED EngineState
    /\ (Called("play") /\ engineLast # <<>> /\ engineLast[1].op = "pause")
         => PositionNow' = PositionNow
    /\ Called("replay") => isPlaying' /\ PositionNow' = 0

C28_PositionSurvives == [][C28_Step]_vars

\* the same on an engine all of whose layers are spatial ones, which play can
\* start
AllSpatial == \A i \in DOMAIN shacData.layers : ~shacData.layers[i].pre_mixed

C28_PositionSurvivesSpatial == [][AllSpatial => C28_Step]_vars

(***************************************************************************)
(* C22.  Resetting the listener puts its position at the origin (0, 0, 0)  *)
(* and its rotation at zero, whatever movement preset is active and        *)
(* whatever moves preceded it.                                             *)
(***************************************************************************)
JustCalled(op) == listenerLast # <<>> /\ listenerLast[1].op = op

C22_ResetToOrigin ==
  JustCalled("resetListener") =>
    /\ listenerPosition = [x |-> 0, y |-> 0, z |-> 0]
    /\ listenerRotation = [azimuth |-> 0, elevation |-> 0, roll |-> 0]

\* what the code keeps of C22: with an audio context the rotation is zero
\* after a reset, and the position is the home position of the preset
C22_ResetToHome ==
  JustCalled("resetListener") =>
    /\ listenerPosition = resetPosition(activePresetName)
    /\ audioContext # "null"
         => listenerRotation = [azimuth |-> 0, elevation |-> 0, roll |-> 0]

(***************************************************************************)
(* C26.  Under every movement preset, for any audio source positions and   *)
(* after any sequence of moveListener, moveListenerAbsolute,               *)
(* setListenerPosition and resetListener from the origin, the listener     *)
(* stays inside the outer boundaries: its height is within [-10, 10] and   *)
(* its horizontal distance from the origin is at most 30 (here to within   *)
(* 0.02, the rounding of the hundredths).                                  *)
(***************************************************************************)
C26_InsideBoundaries ==
  activePresetName # "none" =>
    /\ listenerPosition.y >= -1000
    /\ listenerPosition.y <= 1000
    /\ horizontal(listenerPosition) <= 3000 + 2

\* what the code keeps of C26: a movement processed by a preset that neither
\* pulls nor pushes the listener ends inside the boundaries
C26_InsideBoundariesUnmoved ==
  (/\ activePresetName \in {"explorer", "asymmetric", "stadium"}
   /\ \/ JustCalled("moveListener")
      \/ JustCalled("moveListenerAbsolute")
      \/ JustCalled("setListenerPosition")) =>
    /\ listenerPosition.y >= -1000
    /\ listenerPosition.y <= 1000
    /\ horizontal(listenerPosition) <= 3000 + 2

(***************************************************************************)
(* C27.  In the Venue preset the listener cannot enter a performer: after  *)
(* every processed movement its horizontal distance to every audio source  *)
(* is at least the barrier radius 0.8 (here to within 0.02, the rounding   *)
(* of the hundredths).                                                     *)
(***************************************************************************)
C27_OutsidePerformers ==
  (/\ activePresetName = "venue"
   /\ \/ JustCalled("moveListener")
      \/ JustCalled("moveListenerAbsolute")
      \/ JustCalled("setListenerPosition"))
    => \A k \in DOMAIN audioSources :
         distanceTo(listenerPosition, sourcePos(audioSources[k])) >= 80 - 2

(***************************************************************************)
(* C23.  Offline operation of the service worker: once its install step    *)
(* has completed, and across every later activate step, the current cache  *)
(* holds every precached URL and each GET request for a precached URL is   *)
(* answered from the cache without a network fetch; an activate that has   *)
(* completed has deleted every cache it found except the current one, and  *)
(* never the current one; a request that is not a GET is never answered by *)
(* the worker.                                                             *)
(***************************************************************************)
Precached(url) == url \in urlsToCache

C23_OfflineOperation ==
  /\ installed =>
       /\ cacheStorage[CACHE_NAME].exists
       /\ \A url \in urlsToCache : url \in cacheStorage[CACHE_NAME].urls
  /\ \A a \in answered :
       a.method = "GET" /\ Precached(a.url) => a.from = "cache" /\ ~a.fetched
  /\ \A k \in DOMAIN inFlight :
       Precached(inFlight[k].url) => inFlight[k].stage = "match"
  /\ workerState = "activated" =>
       \A cacheName \in keysSeen :
         cacheName # CACHE_NAME => ~cacheStorage[cacheName].exists
  /\ \A a \in answered : a.method # "GET" => a.from = "unanswered"

C23_Witness ==
  /\ workerState = "activated"
  /\ "shac-player-v2" \in keysSeen
  /\ \E a \in answered : a.method = "GET" /\ Precached(a.url) /\ a.from = "cache"
  /\ \E a \in answered : a.method = "POST"

(***************************************************************************)
(* C29.  The player UI never disagrees with the engine about playback:     *)
(* after every completed user action or timer tick, controls.isPlaying     *)
(* equals audioEngine.isPlaying and the progress update loop is running    *)
(* exactly when the engine is playing.                                     *)
(***************************************************************************)
C29_UIAgreesWithEngine ==
  /\ controlsIsPlaying = isPlaying
  /\ updateInterval = isPlaying

(***************************************************************************)
(* C30.  Overlapping file loads do not mix files: if a second load starts  *)
(* before an earlier one has finished, then once both have finished the    *)
(* engine's layers map, its audioSources list and the player's currentSHAC *)
(* all come from one and the same file.                                    *)
(***************************************************************************)
\* the layer of the map is the file's layer of that name
LayerOfFile(file, layerInfo) ==
  \E i \in DOMAIN file.layers :
    /\ file.layers[i].name = layerInfo.name
    /\ positionOrDefault(file.layers[i].position) = layerInfo.position

\* the audio source is one loadSHAC pushes for a layer of the file
SourceOfFile(file, source) ==
  \E i \in DOMAIN file.layers :
    source \in Range(sourcesOf(file.preMixed, file.layers[i]))

AllFromFile(file) ==
  /\ \A i \in DOMAIN engineLayers : LayerOfFile(file, engineLayers[i])
  /\ \A k \in DOMAIN audioSources : SourceOfFile(file, audioSources[k])
  /\ currentSHAC \in {<<>>, <<file>>}

BothFinished ==
  /\ Len(loads) = 2
  /\ loads[2].overlaps
  /\ \A k \in DOMAIN loads : loads[k].stage # "reading"

C30_LoadsDoNotMixReturned ==
  (BothFinished /\ \A k \in DOMAIN loads : loads[k].stage = "done")
    => \E file \in PlayerFiles : AllFromFile(file) /\ currentSHAC = <<file>>
=============================================================================
